---- MODULE Spec2Model ----
(***************************************************************************)
(* A model of the roku-debug core: the ActionQueue runner, the telnet      *)
(* request pipeline and the socket debugger client session.                *)
(*                                                                         *)
(* Each component has its own specification (SpecQueue, SpecTelnet,        *)
(* SpecClient); the variables of the other components keep their initial   *)
(* value under it.                                                         *)
(***************************************************************************)
EXTENDS Integers, Sequences, FiniteSets, TLC

(***************************************************************************)
(* Bounds of the model.                                                    *)
(***************************************************************************)
\* number of ActionQueue.run() calls explored
MaxRuns == 3

(***************************************************************************)
(* ActionQueue (src/src/managers/ActionQueue.ts, lines 8-38)               *)
(*                                                                         *)
(* Queue items are numbered 1, 2, ... in the order of the run() calls that *)
(* created them.  Every run() call starts its own execution of the async   *)
(* function _runActions (a "loop"); loop l is the one started by the l-th  *)
(* run().  A loop is suspended at the await of line 27 or it has returned. *)
(***************************************************************************)
VARIABLES
    queueItems,   \* this.queueItems: the ids of the queued items, head first
    runCalls,     \* how many times run() has been called
    loopItem,     \* loopItem[l]: the item whose action() result loop l awaits (0: none)
    deferred,     \* deferred[i]: "pending", "resolved" or "rejected"
    invoked,      \* the items whose action has been invoked at least once
    removed,      \* the items shifted off the queue, in the order of removal
    lastResume    \* what the latest continuation after the await did

queueVars == <<queueItems, runCalls, loopItem, deferred, invoked, removed, lastResume>>

Items == 1..MaxRuns

NoResume == [item |-> 0, result |-> "none", shifted |-> 0, settled |-> 0, again |-> 0]

\* Deferred.resolve / Deferred.reject: only the first settlement counts
Settle(d, i, how) == IF d[i] = "pending" THEN [d EXCEPT ![i] = how] ELSE d

\* a mutant of Enqueue: the new item is put at the head
EnqueueAtFront(q, i) == <<i>> \o q

\* run(), lines 16-19: this.queueItems.push({action, deferred: defer()})
Enqueue(q, i) == Append(q, i)

\* The items of q[1..k]
Prefix(q, k) == {q[j] : j \in 1..k}

\* _runActions from the top of its while loop (line 24) up to its next
\* suspension or return, in loop l, on queue q with deferreds d and removal
\* history rm.  The first k heads throw synchronously (line 27 raises before
\* anything is awaited, so the catch of lines 32-35 shifts and rejects each
\* at once); the next head, if there is one, is invoked and the loop
\* suspends at the await of line 27.
RunActions(l, q, d, rm, k) ==
    LET rest == SubSeq(q, k + 1, Len(q))
        next == IF rest = <<>> THEN 0 ELSE Head(rest)
    IN  /\ queueItems' = rest
        /\ deferred' = [i \in Items |->
                          IF i \in Prefix(q, k) /\ d[i] = "pending" THEN "rejected" ELSE d[i]]
        /\ removed' = rm \o SubSeq(q, 1, k)
        /\ invoked' = invoked \cup Prefix(q, k) \cup (IF next = 0 THEN {} ELSE {next})
        /\ loopItem' = [loopItem EXCEPT ![l] = next]

\* run(action), lines 15-21
Run ==
    /\ runCalls < MaxRuns
    /\ runCalls' = runCalls + 1
    /\ \E k \in 0..(Len(queueItems) + 1) :
          RunActions(runCalls + 1, Enqueue(queueItems, runCalls + 1), deferred, removed, k)
    /\ lastResume' = NoResume

\* The continuation of _runActions after the await of line 27 (lines 28-35),
\* then the loop again: the invocation awaited by loop l delivers `result`.
Resume(l, result) ==
    /\ loopItem[l] # 0
    /\ LET item == loopItem[l]
           head == IF queueItems = <<>> THEN 0 ELSE Head(queueItems)
           doShift == result \in {"true", "reject"}
           \* Array.prototype.shift removes whatever is at the head now
           q1 == IF doShift /\ head # 0 THEN Tail(queueItems) ELSE queueItems
           d1 == CASE result = "true" -> Settle(deferred, item, "resolved")
                   [] result = "reject" -> Settle(deferred, item, "rejected")
                   [] OTHER -> deferred
           rm1 == IF doShift /\ head # 0 THEN Append(removed, head) ELSE removed
       IN  /\ \E k \in 0..Len(q1) : RunActions(l, q1, d1, rm1, k)
           /\ lastResume' = [item |-> item, result |-> result,
                             shifted |-> IF doShift THEN head ELSE 0,
                             settled |-> IF doShift THEN item ELSE 0,
                             again |-> IF q1 # <<>> THEN Head(q1) ELSE 0]
    /\ UNCHANGED runCalls

ResumeTrue == \E l \in 1..MaxRuns : Resume(l, "true")
ResumeFalse == \E l \in 1..MaxRuns : Resume(l, "false")
ResumeReject == \E l \in 1..MaxRuns : Resume(l, "reject")

InitQueue ==
    /\ queueItems = <<>>
    /\ runCalls = 0
    /\ loopItem = [l \in 1..MaxRuns |-> 0]
    /\ deferred = [i \in Items |-> "pending"]
    /\ invoked = {}
    /\ removed = <<>>
    /\ lastResume = NoResume

(***************************************************************************)
(* Byte buffers.  A buffer is a sequence of bytes (0..255); offsets are    *)
(* zero-based as in the source, so byte `off` of b is b[off + 1].          *)
(***************************************************************************)

\* SmartBuffer.writeUInt32LE: the four bytes of n, least significant first
UInt32LE(n) ==
    <<n % 256, (n \div 256) % 256, (n \div 65536) % 256, (n \div 16777216) % 256>>

\* SmartBuffer.readUInt32LE at offset off (the caller checks the bounds).
\* The frames of the model hold no byte above 127, so that every value read
\* is below 2^31.
ReadUInt32LE(b, off) ==
    b[off + 1] + 256 * b[off + 2] + 65536 * b[off + 3] + 16777216 * b[off + 4]

\* SmartBuffer.readInt32LE: two's complement, the sign in the last byte
ReadInt32LE(b, off) ==
    b[off + 1] + 256 * b[off + 2] + 65536 * b[off + 3]
        + 16777216 * (IF b[off + 4] >= 128 THEN b[off + 4] - 256 ELSE b[off + 4])

\* SmartBuffer.writeStringNT: the bytes of the string and a NUL
StringNT(str) == str \o <<0>>

\* the position (zero-based) of the first NUL at or after off, Len(b) if none:
\* smart-buffer's readStringNT does not fail when the terminator is missing,
\* it takes the rest of the buffer as the string
NullPos(b, off) ==
    IF \E i \in (off + 1)..Len(b) : b[i] = 0
    THEN (CHOOSE i \in (off + 1)..Len(b) :
            b[i] = 0 /\ \A j \in (off + 1)..(i - 1) : b[j] # 0) - 1
    ELSE Len(b)

\* SmartBuffer.readStringNT at offset off: the string and the new read offset
ReadStringNT(b, off) ==
    [value |-> SubSeq(b, off + 1, NullPos(b, off)), readOffset |-> NullPos(b, off) + 1]

\* Buffer.slice(n): the bytes from offset n on (empty when n >= length)
Slice(b, n) == SubSeq(b, n + 1, Len(b))

(***************************************************************************)
(* Protocol constants (Constants.ts, not among the sources: the numbers    *)
(* are those of section 6 of the specification and of the device protocol) *)
(***************************************************************************)
COMMANDS(name) ==
    CASE name = "STOP" -> 1
      [] name = "CONTINUE" -> 2
      [] name = "THREADS" -> 3
      [] name = "STACKTRACE" -> 4
      [] name = "VARIABLES" -> 5
      [] name = "STEP" -> 6
      [] name = "EXIT_CHANNEL" -> 7

STEP_TYPE(name) ==
    CASE name = "STEP_TYPE_LINE" -> 1
      [] name = "STEP_TYPE_OVER" -> 2
      [] name = "STEP_TYPE_OUT" -> 3

\* UPDATE_TYPES[n]: the name of update type n
UPDATE_TYPES(n) ==
    CASE n = 0 -> "UNDEF"
      [] n = 1 -> "IO_PORT_OPENED"
      [] n = 2 -> "ALL_THREADS_STOPPED"
      [] n = 3 -> "THREAD_ATTACHED"
      [] OTHER -> "undefined"

\* const DEBUGGER_MAGIC = 'bsdebug' (BrightscriptDebugger.ts line 18), as bytes
DEBUGGER_MAGIC == <<98, 115, 100, 101, 98, 117, 103>>

(***************************************************************************)
(* Frame decoders.  Each gives [success, byteLength, requestId, ...] as    *)
(* the decoder classes of the source do.                                   *)
(***************************************************************************)
Failed == [success |-> FALSE, byteLength |-> 0, requestId |-> -1, kind |-> "none"]

\* ThreadsStopped / ThreadAttached (DebuggerUpdateThreads.ts lines 43-77):
\* the body that follows the 12 bytes of an update's header
ThreadsBody(b, off) ==
    IF Len(b) >= off + 6
    THEN LET str == ReadStringNT(b, off + 5)
         IN  [success |-> TRUE, threadIndex |-> ReadInt32LE(b, off),
              stopReason |-> b[off + 5], stopReasonDetail |-> str.value,
              readOffset |-> str.readOffset]
    ELSE [success |-> FALSE, threadIndex |-> -1, stopReason |-> -1,
          stopReasonDetail |-> <<>>, readOffset |-> off]

\* new DebuggerUpdateThreads(buffer), DebuggerUpdateThreads.ts lines 14-40
DebuggerUpdateThreads(b) ==
    IF Len(b) >= 12 /\ ReadUInt32LE(b, 0) = 0
          /\ UPDATE_TYPES(ReadUInt32LE(b, 8)) \in {"ALL_THREADS_STOPPED", "THREAD_ATTACHED"}
          /\ ThreadsBody(b, 12).success
    THEN [success |-> TRUE, byteLength |-> ThreadsBody(b, 12).readOffset,
          requestId |-> 0, kind |-> "threads",
          updateType |-> UPDATE_TYPES(ReadUInt32LE(b, 8)),
          data |-> ThreadsBody(b, 12)]
    ELSE Failed

\* new DebuggerRequestResponse(buffer): the header common to all responses,
\* request_id and error_code; a frame with request_id 0 is an update and
\* never a response
DebuggerRequestResponse(b) ==
    IF Len(b) >= 8 /\ ReadUInt32LE(b, 0) # 0
    THEN [success |-> TRUE, byteLength |-> 8, requestId |-> ReadUInt32LE(b, 0),
          kind |-> "response"]
    ELSE Failed

\* the offset after n stack entries (line:u32, func:cstr, path:cstr) that
\* start at off, or -1 when the buffer ends before that (ShortRead)
RECURSIVE EntriesEnd(_, _, _)
EntriesEnd(b, off, n) ==
    IF n = 0 THEN off
    ELSE IF off + 4 > Len(b) THEN -1
    ELSE LET f == NullPos(b, off + 4)
         IN  IF f >= Len(b) THEN -1
             ELSE LET q == NullPos(b, f + 1)
                  IN  IF q >= Len(b) THEN -1 ELSE EntriesEnd(b, q + 1, n - 1)

\* a response with a list body: the common header, the number of entries
\* and the entries; it succeeds only when all of it is present (a count
\* larger than the buffer cannot be, every entry taking six bytes or more)
ListResponse(b) ==
    IF Len(b) >= 12 /\ ReadUInt32LE(b, 0) # 0
          /\ ReadUInt32LE(b, 8) <= Len(b)
          /\ EntriesEnd(b, 12, ReadUInt32LE(b, 8)) # -1
    THEN [success |-> TRUE, byteLength |-> EntriesEnd(b, 12, ReadUInt32LE(b, 8)),
          requestId |-> ReadUInt32LE(b, 0), kind |-> "response"]
    ELSE Failed

\* new DebuggerVariableRequestResponse(buffer)
DebuggerVariableRequestResponse(b) == ListResponse(b)

\* new DebuggerStacktraceRequestResponse(buffer)
DebuggerStacktraceRequestResponse(b) == ListResponse(b)

\* new DebuggerThreadsRequestResponse(buffer)
DebuggerThreadsRequestResponse(b) == ListResponse(b)

\* new DebuggerUpdateUndefined(buffer): an update of type Undefined, no body
DebuggerUpdateUndefined(b) ==
    IF Len(b) >= 12 /\ ReadUInt32LE(b, 0) = 0 /\ UPDATE_TYPES(ReadUInt32LE(b, 8)) = "UNDEF"
    THEN [success |-> TRUE, byteLength |-> 12, requestId |-> 0, kind |-> "undefined"]
    ELSE Failed

\* new DebuggerUpdateConnectIoPort(buffer): an update of type IoPortOpened
\* whose body is the port, u32
DebuggerUpdateConnectIoPort(b) ==
    IF Len(b) >= 16 /\ ReadUInt32LE(b, 0) = 0
          /\ UPDATE_TYPES(ReadUInt32LE(b, 8)) = "IO_PORT_OPENED"
    THEN [success |-> TRUE, byteLength |-> 16, requestId |-> 0, kind |-> "ioport",
          data |-> ReadUInt32LE(b, 12)]
    ELSE Failed

\* new DebuggerHandshake(buffer): the NUL-terminated magic and the three
\* u32 version fields; it fails while any of it is missing
DebuggerHandshake(b) ==
    IF NullPos(b, 0) + 13 <= Len(b)
    THEN LET v == NullPos(b, 0) + 1
         IN  [success |-> TRUE, byteLength |-> v + 12, requestId |-> -1,
              kind |-> "handshake", magic |-> SubSeq(b, 1, v - 1),
              majorVersion |-> ReadUInt32LE(b, v), minorVersion |-> ReadUInt32LE(b, v + 4),
              patchVersion |-> ReadUInt32LE(b, v + 8)]
    ELSE Failed

(***************************************************************************)
(* BrightscriptDebugger (src/src/BrightscriptDebugger.ts): the client      *)
(* session.  The state is that of the object once start() has connected    *)
(* the control socket.  An undefined number is the empty sequence, a       *)
(* defined one n is <<n>>.                                                 *)
(***************************************************************************)
VARIABLES
    handshakeComplete,      \* this.handshakeComplete
    protocolVersion,        \* this.protocolVersion
    primaryThread,          \* this.primaryThread
    stackFrameIndex,        \* this.stackFrameIndex
    unhandledData,          \* this.unhandledData
    firstRunContinueFired,  \* this.firstRunContinueFired
    stopped,                \* this.stopped
    totalRequests,          \* this.totalRequests
    activeRequests,         \* this.activeRequests: request id -> record
    \* the control socket and what has been observed of the session
    wire,                   \* bytes the device has sent and the socket has not delivered
    socketEnded,            \* the socket has emitted 'end'
    clientEnded,            \* CONTROLLER_CLIENT.end() has been called
    socketWrites,           \* the request ids written to the socket, in order
    lastWrite,              \* the requests written in the latest step: bytes, `stopped` then
    dispatched,             \* dispatched[id]: how many responses were consumed for id
    decoded,                \* the frames decoded in the latest step, with the phase
    faulted,                \* a handler has thrown out of the 'data' callback
    lastCall,               \* the command method called in the latest step, its outcome
    answered,               \* the request ids the device has sent an answer to
    lastChunk,              \* the bytes of the chunk delivered in the latest step
    consumed                \* the frames the latest step removed from unhandledData, in order

clientVars == <<handshakeComplete, protocolVersion, primaryThread, stackFrameIndex,
                unhandledData, firstRunContinueFired, stopped, totalRequests,
                activeRequests, wire, socketEnded, clientEnded, socketWrites,
                lastWrite, dispatched, decoded, faulted, lastCall, answered,
                lastChunk, consumed>>

\* number of requests the session may issue
MaxRequests == 5
\* number of bytes of a chunk made of two frames
MaxChunk == 20
\* number of bytes that may wait in unhandledData
MaxBuffer == 20

RequestIds == 1..MaxRequests

\* the session as one value, so that the methods can be composed
Session ==
    [handshakeComplete |-> handshakeComplete, protocolVersion |-> protocolVersion,
     primaryThread |-> primaryThread, stackFrameIndex |-> stackFrameIndex,
     unhandledData |-> unhandledData, firstRunContinueFired |-> firstRunContinueFired,
     stopped |-> stopped, totalRequests |-> totalRequests,
     activeRequests |-> activeRequests, clientEnded |-> clientEnded,
     socketWrites |-> socketWrites, lastWrite |-> <<>>, dispatched |-> dispatched,
     decoded |-> {}, faulted |-> faulted, ret |-> 0, consumed |-> <<>>]

Commit(s) ==
    /\ handshakeComplete' = s.handshakeComplete
    /\ protocolVersion' = s.protocolVersion
    /\ primaryThread' = s.primaryThread
    /\ stackFrameIndex' = s.stackFrameIndex
    /\ unhandledData' = s.unhandledData
    /\ firstRunContinueFired' = s.firstRunContinueFired
    /\ stopped' = s.stopped
    /\ totalRequests' = s.totalRequests
    /\ activeRequests' = s.activeRequests
    /\ clientEnded' = s.clientEnded
    /\ socketWrites' = s.socketWrites
    /\ lastWrite' = s.lastWrite
    /\ dispatched' = s.dispatched
    /\ decoded' = s.decoded
    /\ faulted' = s.faulted
    /\ consumed' = s.consumed

\* writeUInt32LE(value) of a number that may be undefined: NaN is stored as 0
NumberOrZero(n) == IF n = <<>> THEN 0 ELSE n[1]

\* `n > -1` in JavaScript: false for undefined
GreaterThanMinusOne(n) == n # <<>> /\ n[1] > -1

\* SmartBuffer.insertUInt32LE(value, 0): four bytes put in front
InsertUInt32LE(b, value) == UInt32LE(value) \o b

\* a mutant of makeRequest: the id is taken before it is incremented
makeRequestPostIncrement(s, body, command, extraData) ==
    LET requestId == s.totalRequests
        b1 == InsertUInt32LE(body, COMMANDS(command))
        b2 == InsertUInt32LE(b1, requestId)
        b3 == InsertUInt32LE(b2, Len(b2) + 4)
    IN  [s EXCEPT !.totalRequests = s.totalRequests + 1,
                  !.socketWrites = Append(@, requestId),
                  !.lastWrite = Append(@, [bytes |-> b3, stopped |-> s.stopped,
                                           command |-> command,
                                           extraData |-> extraData]),
                  !.activeRequests =
                      [i \in (DOMAIN @) \cup {requestId} |->
                         IF i = requestId
                         THEN [commandType |-> command, extraData |-> extraData]
                         ELSE @[i]],
                  !.ret = requestId]

\* a mutant of makeRequest: packet_length leaves out its own four bytes
makeRequestShortLength(s, body, command, extraData) ==
    LET requestId == s.totalRequests + 1
        b1 == InsertUInt32LE(body, COMMANDS(command))
        b2 == InsertUInt32LE(b1, requestId)
        b3 == InsertUInt32LE(b2, Len(b2))
    IN  [s EXCEPT !.totalRequests = requestId,
                  !.socketWrites = Append(@, requestId),
                  !.lastWrite = Append(@, [bytes |-> b3, stopped |-> s.stopped,
                                           command |-> command,
                                           extraData |-> extraData]),
                  !.activeRequests =
                      [i \in (DOMAIN @) \cup {requestId} |->
                         IF i = requestId
                         THEN [commandType |-> command, extraData |-> extraData]
                         ELSE @[i]],
                  !.ret = requestId]

\* makeRequest(buffer, command, extraData), lines 148-160
makeRequest(s, body, command, extraData) ==
    LET requestId == s.totalRequests + 1
        b1 == InsertUInt32LE(body, COMMANDS(command))
        b2 == InsertUInt32LE(b1, requestId)
        \* buffer.writeOffset + 4, the write offset being the length so far
        b3 == InsertUInt32LE(b2, Len(b2) + 4)
    IN  [s EXCEPT !.totalRequests = requestId,
                  !.socketWrites = Append(@, requestId),
                  !.lastWrite = Append(@, [bytes |-> b3, stopped |-> s.stopped,
                                           command |-> command,
                                           extraData |-> extraData]),
                  !.activeRequests =
                      [i \in (DOMAIN @) \cup {requestId} |->
                         IF i = requestId
                         THEN [commandType |-> command, extraData |-> extraData]
                         ELSE @[i]],
                  !.ret = requestId]

NotSent(s) == [s EXCEPT !.ret = -1]

\* continue(), lines 90-94
continue(s) ==
    LET s1 == IF s.stopped THEN makeRequest(s, <<>>, "CONTINUE", <<>>) ELSE NotSent(s)
    IN  [s1 EXCEPT !.stopped = (s1.ret > -1)]

\* pause(), lines 96-98
pause(s) == IF ~s.stopped THEN makeRequest(s, <<>>, "STOP", <<>>) ELSE NotSent(s)

\* exitChannel(), lines 100-102
exitChannel(s) == makeRequest(s, <<>>, "EXIT_CHANNEL", <<>>)

\* a mutant of step: the request is made whether stopped or not
stepUngated(s, stepType) ==
    makeRequest(s, UInt32LE(NumberOrZero(s.primaryThread)) \o <<STEP_TYPE(stepType)>>,
                "STEP", <<>>)

\* step(stepType), lines 116-121
step(s, stepType) ==
    LET buffer == UInt32LE(NumberOrZero(s.primaryThread)) \o <<STEP_TYPE(stepType)>>
    IN  IF s.stopped THEN makeRequest(s, buffer, "STEP", <<>>) ELSE NotSent(s)

\* stepIn(), stepOver(), stepOut(), lines 104-114
stepIn(s) == step(s, "STEP_TYPE_LINE")
stepOver(s) == step(s, "STEP_TYPE_OVER")
stepOut(s) == step(s, "STEP_TYPE_OUT")

\* threads(), lines 123-125
threads(s) == IF s.stopped THEN makeRequest(s, <<>>, "THREADS", <<>>) ELSE NotSent(s)

\* stackTrace(threadIndex), lines 127-131
stackTrace(s, threadIndex) ==
    LET buffer == UInt32LE(NumberOrZero(threadIndex))
    IN  IF s.stopped /\ GreaterThanMinusOne(threadIndex)
        THEN makeRequest(s, buffer, "STACKTRACE", <<>>)
        ELSE NotSent(s)

\* the variable path entries, each written with writeStringNT (lines 140-142)
RECURSIVE PathBytes(_)
PathBytes(entries) ==
    IF entries = <<>> THEN <<>> ELSE StringNT(Head(entries)) \o PathBytes(Tail(entries))

\* getVariables(variablePathEntries, getChildKeys, stackFrameIndex, threadIndex),
\* lines 133-146
getVariables(s, variablePathEntries, getChildKeys, frameIndex, threadIndex) ==
    IF s.stopped /\ GreaterThanMinusOne(threadIndex)
    THEN LET buffer == <<IF getChildKeys THEN 1 ELSE 0>>
                         \o UInt32LE(NumberOrZero(threadIndex))
                         \o UInt32LE(NumberOrZero(frameIndex))
                         \o UInt32LE(Len(variablePathEntries))
                         \o PathBytes(variablePathEntries)
         IN  makeRequest(s, buffer, "VARIABLES", variablePathEntries)
    ELSE NotSent(s)

\* the variable path ['m'] of line 304
PathM == <<(<<109>>)>>

\* a mutant of handleThreadsUpdate: primaryThread is not taken from the update
handleThreadsUpdateKeepThread(s, update) ==
    LET s1 == [s EXCEPT !.stopped = TRUE]
    IN  IF update.updateType = "ALL_THREADS_STOPPED"
        THEN IF ~s1.firstRunContinueFired
             THEN [continue(s1) EXCEPT !.firstRunContinueFired = TRUE]
             ELSE LET s2 == [s1 EXCEPT !.stackFrameIndex = <<0>>]
                      s3 == threads(s2)
                      s4 == stackTrace(s3, s3.primaryThread)
                      s5 == getVariables(s4, PathM, TRUE, s4.stackFrameIndex, s4.primaryThread)
                  IN  stepIn(s5)
        ELSE s1

\* handleThreadsUpdate(update), lines 291-309
handleThreadsUpdate(s, update) ==
    LET s1 == [s EXCEPT !.stopped = TRUE]
    IN  IF update.updateType = "ALL_THREADS_STOPPED"
        THEN IF ~s1.firstRunContinueFired
             THEN [continue(s1) EXCEPT !.firstRunContinueFired = TRUE]
             ELSE LET s2 == [s1 EXCEPT !.primaryThread = <<update.data.threadIndex>>,
                                       !.stackFrameIndex = <<0>>]
                      s3 == threads(s2)
                      s4 == stackTrace(s3, s3.primaryThread)
                      s5 == getVariables(s4, PathM, TRUE, s4.stackFrameIndex, s4.primaryThread)
                  IN  stepIn(s5)
        ELSE s1

\* a frame of the given kind has been decoded (success is true), in the
\* phase the session is in
Observe(s, kind) ==
    [s EXCEPT !.decoded = @ \cup {[kind |-> kind, handshakeComplete |-> s.handshakeComplete,
                                    requestId |-> ReadUInt32LE(s.unhandledData, 0)]}]

\* a threads update has been decoded: its type and thread index, whether the
\* first-run continue had fired, and how many threads updates the step had
\* decoded before it
ObserveThreads(s, update) ==
    [s EXCEPT !.decoded =
        @ \cup {[kind |-> "threads", handshakeComplete |-> s.handshakeComplete,
                 updateType |-> update.updateType,
                 threadIndex |-> update.data.threadIndex,
                 firstRunContinueFired |-> s.firstRunContinueFired,
                 n |-> Cardinality({e \in @ : e.kind = "threads"}) + 1]}]

\* a handshake has been decoded: the frame, and the buffer it was decoded from
ObserveHandshake(s, debuggerHandshake) ==
    [s EXCEPT !.decoded = @ \cup {[kind |-> "handshake",
                                    handshakeComplete |-> s.handshakeComplete,
                                    frame |-> debuggerHandshake,
                                    buffer |-> s.unhandledData]}]

RECURSIVE parseUnhandledData(_)

\* a mutant of removedProcessedBytes: the request record is kept
removedProcessedBytesKeepRecord(s, responseHandler) ==
    LET id == responseHandler.requestId
        s1 == [s EXCEPT
                 !.dispatched = IF responseHandler.kind = "response" /\ id \in DOMAIN @
                                THEN [@ EXCEPT ![id] = @ + 1] ELSE @,
                 !.unhandledData = Slice(@, responseHandler.byteLength),
                 !.consumed = Append(@, [kind |-> responseHandler.kind,
                                         byteLength |-> responseHandler.byteLength,
                                         buffer |-> s.unhandledData,
                                         removed |-> id \in DOMAIN s.activeRequests])]
    IN  parseUnhandledData(s1)

\* a mutant of removedProcessedBytes: one byte more than the frame is sliced off
removedProcessedBytesOneMore(s, responseHandler) ==
    LET id == responseHandler.requestId
        s1 == [s EXCEPT
                 !.activeRequests = [i \in (DOMAIN @) \ {id} |-> @[i]],
                 !.dispatched = IF responseHandler.kind = "response" /\ id \in DOMAIN @
                                THEN [@ EXCEPT ![id] = @ + 1] ELSE @,
                 !.unhandledData = Slice(@, responseHandler.byteLength + 1),
                 !.consumed = Append(@, [kind |-> responseHandler.kind,
                                         byteLength |-> responseHandler.byteLength,
                                         buffer |-> s.unhandledData,
                                         removed |-> id \in DOMAIN s.activeRequests])]
    IN  parseUnhandledData(s1)

\* removedProcessedBytes(responseHandler, unhandledData), lines 227-235
removedProcessedBytes(s, responseHandler) ==
    LET id == responseHandler.requestId
        s1 == [s EXCEPT
                 !.activeRequests = [i \in (DOMAIN @) \ {id} |-> @[i]],
                 !.dispatched = IF responseHandler.kind = "response" /\ id \in DOMAIN @
                                THEN [@ EXCEPT ![id] = @ + 1] ELSE @,
                 !.unhandledData = Slice(@, responseHandler.byteLength),
                 !.consumed = Append(@, [kind |-> responseHandler.kind,
                                         byteLength |-> responseHandler.byteLength,
                                         buffer |-> s.unhandledData,
                                         removed |-> id \in DOMAIN s.activeRequests])]
    IN  parseUnhandledData(s1)

\* a mutant of verifyHandshake: the magic is not compared
verifyHandshakeAnyMagic(s, debuggerHandshake) ==
    removedProcessedBytes(
        [s EXCEPT !.protocolVersion = <<debuggerHandshake.majorVersion,
                                        debuggerHandshake.minorVersion,
                                        debuggerHandshake.patchVersion, "">>,
                  !.handshakeComplete = TRUE],
        debuggerHandshake)

\* verifyHandshake(debuggerHandshake, unhandledData), lines 237-252
verifyHandshake(s, debuggerHandshake) ==
    IF debuggerHandshake.magic = DEBUGGER_MAGIC
    THEN removedProcessedBytes(
             [s EXCEPT !.protocolVersion = <<debuggerHandshake.majorVersion,
                                             debuggerHandshake.minorVersion,
                                             debuggerHandshake.patchVersion, "">>,
                       !.handshakeComplete = TRUE],
             debuggerHandshake)
    ELSE [s EXCEPT !.clientEnded = TRUE]

\* the body decoder that the command type of the request selects, lines 172-194
BodyDecoder(commandType, b) ==
    CASE commandType = "VARIABLES" -> DebuggerVariableRequestResponse(b)
      [] commandType = "STACKTRACE" -> DebuggerStacktraceRequestResponse(b)
      [] commandType = "THREADS" -> DebuggerThreadsRequestResponse(b)
      [] OTHER -> Failed

\* parseUnhandledData, lines 197-215: the update decoders, in their order
parseUpdates(s) ==
    LET b == s.unhandledData
    IN  IF DebuggerUpdateThreads(b).success
        THEN removedProcessedBytes(
                 handleThreadsUpdate(ObserveThreads(s, DebuggerUpdateThreads(b)),
                                     DebuggerUpdateThreads(b)),
                 DebuggerUpdateThreads(b))
        ELSE IF DebuggerUpdateUndefined(b).success
        THEN removedProcessedBytes(Observe(s, "undefined"), DebuggerUpdateUndefined(b))
        ELSE IF DebuggerUpdateConnectIoPort(b).success
        THEN removedProcessedBytes(Observe(s, "ioport"), DebuggerUpdateConnectIoPort(b))
        ELSE s

\* parseUnhandledData, lines 163-195: a response; the dereference of line
\* 166 throws a TypeError when the request id has no record
parseResponse(s) ==
    LET b == s.unhandledData
        id == DebuggerRequestResponse(b).requestId
        s1 == Observe(s, "response")
    IN  IF id \notin DOMAIN s.activeRequests
        THEN [s1 EXCEPT !.faulted = TRUE]
        ELSE LET commandType == s.activeRequests[id].commandType
             IN  IF commandType \in {"STOP", "CONTINUE", "STEP", "EXIT_CHANNEL"}
                 THEN removedProcessedBytes(s1, DebuggerRequestResponse(b))
                 ELSE IF BodyDecoder(commandType, b).success
                 THEN removedProcessedBytes(s1, BodyDecoder(commandType, b))
                 ELSE parseUpdates(s1)

\* parseUnhandledData, lines 217-222: the handshake
parseHandshake(s) ==
    IF DebuggerHandshake(s.unhandledData).success
    THEN verifyHandshake(ObserveHandshake(s, DebuggerHandshake(s.unhandledData)),
                         DebuggerHandshake(s.unhandledData))
    ELSE s

\* a mutant of parseUnhandledData: what is not a handshake is decoded as a
\* frame whether the handshake is complete or not
parseUnhandledDataUngated(s) ==
    IF ~s.handshakeComplete /\ DebuggerHandshake(s.unhandledData).success
    THEN parseHandshake(s)
    ELSE IF DebuggerRequestResponse(s.unhandledData).success
    THEN parseResponse(s)
    ELSE parseUpdates(s)

\* a mutant of parseUnhandledData: the response decoders are tried for a
\* frame whatever its request id
parseUnhandledDataAnyId(s) ==
    IF s.handshakeComplete
    THEN IF Len(s.unhandledData) >= 8
         THEN parseResponse(s)
         ELSE parseUpdates(s)
    ELSE parseHandshake(s)

\* parseUnhandledData(unhandledData), lines 162-225.  Every call of it is
\* the last thing its caller does, so an exception thrown in it leaves the
\* state as it is at the throw.
parseUnhandledData(s) ==
    IF s.handshakeComplete
    THEN IF DebuggerRequestResponse(s.unhandledData).success
         THEN parseResponse(s)
         ELSE parseUpdates(s)
    ELSE parseHandshake(s)

(***************************************************************************)
(* The device: the frames it may put on the control socket.  The session   *)
(* must cope with any of them, in any order and cut into any chunks.       *)
(***************************************************************************)
HandshakeFrame(magic, version) ==
    StringNT(magic) \o UInt32LE(version[1]) \o UInt32LE(version[2]) \o UInt32LE(version[3])

ResponseFrame(requestId, body) == UInt32LE(requestId) \o UInt32LE(0) \o body

UpdateFrame(updateType, body) == UInt32LE(0) \o UInt32LE(0) \o UInt32LE(updateType) \o body

ThreadsUpdateBody(threadIndex, stopReason, detail) ==
    UInt32LE(threadIndex) \o <<stopReason>> \o StringNT(detail)

\* a list body with one entry: line 7, function "f", path "p"
OneEntryBody == UInt32LE(1) \o UInt32LE(7) \o StringNT(<<102>>) \o StringNT(<<112>>)

\* a magic that is not DEBUGGER_MAGIC
BadMagic == <<98, 115, 100, 101, 98, 117, 88>>

HandshakeFrames ==
    {HandshakeFrame(DEBUGGER_MAGIC, <<3, 1, 0>>), HandshakeFrame(BadMagic, <<3, 1, 0>>)}

ResponseFrames(ids) ==
    {ResponseFrame(id, <<>>) : id \in ids} \cup {ResponseFrame(id, OneEntryBody) : id \in ids}

UpdateFrames ==
    {UpdateFrame(2, ThreadsUpdateBody(1, 1, <<>>)),
     UpdateFrame(2, ThreadsUpdateBody(0, 3, <<100, 101>>)),
     UpdateFrame(3, ThreadsUpdateBody(1, 1, <<100>>)),
     UpdateFrame(0, <<>>),
     UpdateFrame(1, UInt32LE(8000))}

(***************************************************************************)
(* The steps of the client session.  An exception that leaves the 'data'   *)
(* callback is not caught by anything in the source: the session is taken  *)
(* to end there (faulted), as the process does.                            *)
(***************************************************************************)
NoCall == [op |-> "none", ret |-> 0, stoppedBefore |-> FALSE, changed |-> FALSE]

EnvUnchanged == UNCHANGED <<wire, socketEnded, answered>>

\* the caller of the command methods awaits the answers to the requests made
\* so far before it calls the next one; the requests that the session makes
\* itself (handleThreadsUpdate) are outstanding together
CallerIdle == DOMAIN activeRequests = {}

\* a command method is called: op names it, s is the session it returns
Call(op, s) ==
    /\ ~faulted
    /\ ~socketEnded
    /\ s.totalRequests <= MaxRequests
    /\ CallerIdle
    /\ Commit(s)
    /\ lastCall' = [op |-> op, ret |-> s.ret, stoppedBefore |-> stopped,
                    changed |-> <<s.socketWrites, s.totalRequests, s.activeRequests, s.stopped>>
                                  # <<socketWrites, totalRequests, activeRequests, stopped>>]
    /\ lastChunk' = <<>>
    /\ EnvUnchanged

CallContinue == Call("continue", continue(Session))
CallPause == Call("pause", pause(Session))
CallExitChannel == Call("exitChannel", exitChannel(Session))
CallStepIn == Call("stepIn", stepIn(Session))
CallStepOver == Call("stepOver", stepOver(Session))
CallStepOut == Call("stepOut", stepOut(Session))
CallThreads == Call("threads", threads(Session))
CallStackTrace ==
    \E threadIndex \in {primaryThread, <<0>>} :
        Call("stackTrace", stackTrace(Session, threadIndex))
CallGetVariables ==
    \E path \in {<<>>, PathM, PathM \o <<(<<116, 111, 112>>)>>} :
        Call("getVariables",
             getVariables(Session, path, TRUE, stackFrameIndex, primaryThread))

\* the request ids the device answers: the oldest and the newest
\* outstanding request, the request answered last (a duplicate) and one
\* that has not been made
AnsweredIds ==
    LET pending == DOMAIN activeRequests
        lo == IF pending = {} THEN totalRequests + 1
              ELSE CHOOSE i \in pending : \A j \in pending : i <= j
        hi == IF pending = {} THEN totalRequests + 1
              ELSE CHOOSE i \in pending : \A j \in pending : i >= j
    IN  {lo, hi, totalRequests + 1} \cup (IF lo > 1 THEN {lo - 1} ELSE {})

\* the frames the device may send in the present state
Frames ==
    (IF handshakeComplete THEN {} ELSE HandshakeFrames)
        \cup UpdateFrames \cup ResponseFrames(AnsweredIds)

\* where the socket may cut a frame in two: inside the header, after the
\* header of a response, and around the last bytes of a twenty-byte frame
Cuts == {4, 9, 17, 18, 19}

\* what happened in the latest step, when nothing did
Quiet ==
    /\ lastWrite' = <<>>
    /\ decoded' = {}
    /\ lastCall' = NoCall
    /\ lastChunk' = <<>>
    /\ consumed' = <<>>

\* CONTROLLER_CLIENT.on('data'), lines 63-71, for the chunk `buffer`, when
\* unhandledData holds no more than `room` bytes with it
Deliver(buffer, room) ==
    /\ ~socketEnded
    /\ ~faulted
    /\ Len(unhandledData) + Len(buffer) <= room
    /\ LET s == parseUnhandledData([Session EXCEPT !.unhandledData = @ \o buffer])
       IN  /\ s.totalRequests <= MaxRequests
           /\ Commit(s)
    /\ lastCall' = NoCall
    /\ lastChunk' = buffer
    /\ UNCHANGED socketEnded

Receive(buffer) == Deliver(buffer, MaxBuffer)

\* a chunk that is one whole frame
OnFrame ==
    /\ wire = <<>>
    /\ \E frame \in Frames : Receive(frame)
    /\ wire' = <<>>
    /\ UNCHANGED answered

\* a chunk that is two whole frames
OnTwoFrames ==
    /\ wire = <<>>
    /\ \E f1 \in Frames, f2 \in Frames :
          /\ Len(f1) + Len(f2) <= MaxChunk
          /\ Receive(f1 \o f2)
    /\ wire' = <<>>
    /\ UNCHANGED answered

\* the first chunk of the session holds the handshake and the update that
\* the device sends right behind it
OnHandshakeAndUpdate ==
    /\ ~handshakeComplete
    /\ wire = <<>>
    /\ unhandledData = <<>>
    /\ \E h \in HandshakeFrames, u \in UpdateFrames : Deliver(h \o u, Len(h \o u))
    /\ wire' = <<>>
    /\ UNCHANGED answered

\* a chunk that is the first bytes of a frame; the rest stays on the wire
OnFirstPart ==
    /\ wire = <<>>
    /\ \E frame \in Frames, k \in Cuts :
          /\ k < Len(frame)
          /\ Receive(SubSeq(frame, 1, k))
          /\ wire' = Slice(frame, k)
    /\ UNCHANGED answered

\* the chunk that is the rest of the frame
OnRest ==
    /\ wire # <<>>
    /\ Receive(wire)
    /\ wire' = <<>>
    /\ UNCHANGED answered

\* CONTROLLER_CLIENT.on('end'), lines 73-75: the device has closed the
\* socket; what it had sent has been delivered
OnEnd ==
    /\ ~socketEnded
    /\ ~faulted
    /\ wire = <<>>
    /\ socketEnded' = TRUE
    /\ Quiet
    /\ UNCHANGED <<handshakeComplete, protocolVersion, primaryThread, stackFrameIndex,
                   unhandledData, firstRunContinueFired, stopped, totalRequests,
                   activeRequests, wire, clientEnded, socketWrites,
                   dispatched, faulted, answered>>

\* the fields of a new BrightscriptDebugger, lines 23-33
InitClient ==
    /\ handshakeComplete = FALSE
    /\ protocolVersion = <<>>
    /\ primaryThread = <<>>
    /\ stackFrameIndex = <<>>
    /\ unhandledData = <<>>
    /\ firstRunContinueFired = FALSE
    /\ stopped = FALSE
    /\ totalRequests = 0
    /\ activeRequests = <<>>
    /\ wire = <<>>
    /\ socketEnded = FALSE
    /\ clientEnded = FALSE
    /\ socketWrites = <<>>
    /\ lastWrite = <<>>
    /\ dispatched = [id \in RequestIds |-> 0]
    /\ decoded = {}
    /\ faulted = FALSE
    /\ lastCall = NoCall
    /\ answered = {}
    /\ lastChunk = <<>>
    /\ consumed = <<>>

(***************************************************************************)
(* TelnetRequestPipeline and Command (src/src/managers/ActionQueue.ts,     *)
(* lines 47-328).  Text is a sequence of tokens: "prompt" is the text      *)
(* `Brightscript Debugger> `, "newline" a line break, "text" a piece of a  *)
(* line, "warning" the text `warning: operation may not be interruptible.` *)
(* and "attached" a `Thread attached: ...` notice with its line breaks.    *)
(* A command is known by its id.                                           *)
(***************************************************************************)
VARIABLES
    commands,            \* this.commands: the ids of the commands that wait
    isAtDebuggerPrompt,  \* this.isAtDebuggerPrompt
    activeCommand,       \* this.activeCommand: <<id>>, <<>> for undefined
    unhandledText,       \* this.unhandledText
    commandIdSequence,   \* this.commandIdSequence
    waitForPrompt,       \* Command.waitForPrompt, by command id
    promise,             \* Command.deferred, by command id: its state
    client,              \* this.client: "open", "ended" when the socket has emitted
                         \* 'end', or "destroyed" after destroy()
    clientWrites,        \* what the latest step wrote to the socket
    settlements,         \* the deferreds the latest step settled, with the value
    emitted,             \* the unhandled-console-output events of the latest step
    insertAtFront        \* options.insertAtFront of the executeCommand call, by command id

telnetVars == <<commands, isAtDebuggerPrompt, activeCommand, unhandledText,
                commandIdSequence, waitForPrompt, promise, client, clientWrites,
                settlements, emitted, insertAtFront>>

\* number of executeCommand calls
MaxCommands == 3
\* number of tokens of unhandledText and a chunk together
MaxText == 2

Tokens == {"prompt", "newline", "text", "warning", "attached"}

CommandIds == 0..(MaxCommands - 1)

\* the pipeline as one value; settled tells that a promise was settled and
\* its finally callback (line 188) waits as a microtask
Pipeline ==
    [commands |-> commands, isAtDebuggerPrompt |-> isAtDebuggerPrompt,
     activeCommand |-> activeCommand, unhandledText |-> unhandledText,
     commandIdSequence |-> commandIdSequence, waitForPrompt |-> waitForPrompt,
     promise |-> promise, client |-> client, clientWrites |-> <<>>,
     settlements |-> <<>>, emitted |-> <<>>, insertAtFront |-> insertAtFront,
     settled |-> FALSE]

CommitPipeline(t) ==
    /\ commands' = t.commands
    /\ isAtDebuggerPrompt' = t.isAtDebuggerPrompt
    /\ activeCommand' = t.activeCommand
    /\ unhandledText' = t.unhandledText
    /\ commandIdSequence' = t.commandIdSequence
    /\ waitForPrompt' = t.waitForPrompt
    /\ promise' = t.promise
    /\ client' = t.client
    /\ clientWrites' = t.clientWrites
    /\ settlements' = t.settlements
    /\ emitted' = t.emitted
    /\ insertAtFront' = t.insertAtFront

\* util.ensureDebugPromptOnOwnLine: a line break is put before every prompt
\* that does not begin a line
RECURSIVE PromptOnOwnLine(_, _)
PromptOnOwnLine(text, atLineStart) ==
    IF text = <<>> THEN <<>>
    ELSE (IF Head(text) = "prompt" /\ ~atLineStart
          THEN <<"newline", "prompt">> ELSE <<Head(text)>>)
             \o PromptOnOwnLine(Tail(text), Head(text) \in {"newline", "attached"})

ensureDebugPromptOnOwnLine(text) == PromptOnOwnLine(text, TRUE)

\* util.removeThreadAttachedText: a notice is removed with the prompt that
\* the device prints after it; a notice that lacks that prompt stays
RECURSIVE removeThreadAttachedText(_)
removeThreadAttachedText(text) ==
    IF Len(text) < 2 THEN text
    ELSE IF text[1] = "attached" /\ text[2] = "prompt"
    THEN removeThreadAttachedText(SubSeq(text, 3, Len(text)))
    ELSE <<text[1]>> \o removeThreadAttachedText(Tail(text))

\* util.endsWithDebuggerPrompt
endsWithDebuggerPrompt(text) == text # <<>> /\ text[Len(text)] = "prompt"

\* util.endsWithThreadAttachedText
endsWithThreadAttachedText(text) == text # <<>> /\ text[Len(text)] = "attached"

\* the id that stands for no command: a line that is not a queued command
NoCommand == -1

\* client.write(text) by `by`, with the value of isAtDebuggerPrompt then
SocketWrite(t, by, id) ==
    [t EXCEPT !.clientWrites =
        Append(@, [by |-> by, command |-> id, isAtDebuggerPrompt |-> t.isAtDebuggerPrompt])]

\* Deferred.resolve / Deferred.reject of the command's deferred; the
\* settlement is recorded with the text the pipeline held then
SettleCommand(t, id, state, value) ==
    [t EXCEPT !.promise[id] = state,
              !.settlements = Append(@, [command |-> id, state |-> state, value |-> value,
                                         text |-> t.unhandledText]),
              !.settled = TRUE]

\* a mutant of execute: the prompt is given up whatever waitForPrompt says
executeAlwaysClears(t) ==
    LET id == t.activeCommand[1]
    IN  IF t.client = "destroyed"
        THEN SettleCommand(t, id, "rejected", <<>>)
        ELSE [SocketWrite(t, "command", id) EXCEPT !.isAtDebuggerPrompt = FALSE]

\* Command.execute(), lines 267-282; client.write throws a TypeError when
\* destroy() has set the client to undefined
execute(t) ==
    LET id == t.activeCommand[1]
    IN  IF t.client = "destroyed"
        THEN SettleCommand(t, id, "rejected", <<>>)
        ELSE LET t1 == SocketWrite(t, "command", id)
             IN  IF t.waitForPrompt[id]
                 THEN [t1 EXCEPT !.isAtDebuggerPrompt = FALSE]
                 ELSE t1

\* a mutant of executeNextCommand: the command is executed without a prompt
executeNextCommandNoPrompt(t) ==
    \* this.activeCommand?.isCompleted
    LET t1 == IF t.activeCommand # <<>> /\ t.promise[t.activeCommand[1]] # "pending"
              THEN [t EXCEPT !.activeCommand = <<>>] ELSE t
    IN  IF t1.commands = <<>> THEN t1
        ELSE IF t1.activeCommand # <<>> THEN t1
        ELSE execute([t1 EXCEPT !.activeCommand = <<Head(t1.commands)>>,
                                !.commands = Tail(t1.commands)])

\* a mutant of executeNextCommand: a completed active command is not cleared
executeNextCommandKeepActive(t) ==
    IF t.commands = <<>> THEN t
    ELSE IF t.activeCommand # <<>> THEN t
    ELSE IF t.isAtDebuggerPrompt
    THEN execute([t EXCEPT !.activeCommand = <<Head(t.commands)>>,
                           !.commands = Tail(t.commands)])
    ELSE t

\* executeNextCommand(), lines 201-229
executeNextCommand(t) ==
    \* this.activeCommand?.isCompleted
    LET t1 == IF t.activeCommand # <<>> /\ t.promise[t.activeCommand[1]] # "pending"
              THEN [t EXCEPT !.activeCommand = <<>>] ELSE t
    IN  IF t1.commands = <<>> THEN t1
        ELSE IF t1.activeCommand # <<>> THEN t1
        ELSE IF t1.isAtDebuggerPrompt
        THEN execute([t1 EXCEPT !.activeCommand = <<Head(t1.commands)>>,
                                !.commands = Tail(t1.commands)])
        ELSE t1

\* the finally callbacks of the promises settled in this step (line 188-190)
\* run as microtasks when the handler has returned
RECURSIVE Microtasks(_)
Microtasks(t) ==
    IF t.settled THEN Microtasks(executeNextCommand([t EXCEPT !.settled = FALSE])) ELSE t

\* the place of the first prompt of the text, 0 if it has none
FirstPrompt(text) ==
    IF \E i \in 1..Len(text) : text[i] = "prompt"
    THEN CHOOSE i \in 1..Len(text) :
            text[i] = "prompt" /\ \A j \in 1..(i - 1) : text[j] # "prompt"
    ELSE 0

\* the text behind the match of /Brightscript Debugger>\s*/ that starts at
\* place i: the prompt and the white space after it are skipped
RECURSIVE AfterPrompt(_, _)
AfterPrompt(text, i) ==
    IF i < Len(text) /\ text[i + 1] = "newline"
    THEN AfterPrompt(text, i + 1)
    ELSE SubSeq(text, i + 1, Len(text))

\* a mutant of removeJunk: the text is returned as it is
removeJunkNothing(text) == text

\* Command.removeJunk(text), lines 287-292: the first warning goes, with
\* the line break after it
RECURSIVE removeJunk(_)
removeJunk(text) ==
    IF text = <<>> THEN <<>>
    ELSE IF Head(text) = "warning"
    THEN IF Len(text) >= 2 /\ text[2] = "newline"
         THEN SubSeq(text, 3, Len(text)) ELSE Tail(text)
    ELSE <<Head(text)>> \o removeJunk(Tail(text))

Emit(t, text) == [t EXCEPT !.emitted = Append(@, text)]

\* Command.handleData(pipeline), lines 295-327, of the active command
CommandHandleData(t) ==
    LET id == t.activeCommand[1]
        i == FirstPrompt(t.unhandledText)
    IN  IF i # 0
        THEN LET response == removeJunk(SubSeq(t.unhandledText, 1, i - 1))
                 rest == AfterPrompt(t.unhandledText, i)
                 t1 == IF rest # <<>> THEN Emit(t, rest) ELSE t
                 t2 == IF t1.promise[id] = "pending"
                       THEN SettleCommand(t1, id, "resolved", response)
                       ELSE t1
             \* the text is cleared before the deferred is resolved (line 315);
             \* nothing runs on the resolution before the handler returns
             IN  [t2 EXCEPT !.unhandledText = <<>>]
        ELSE t

\* /\n\s*/.exec(text), line 135: the text has a line break somewhere
HasLineBreak(text) == \E i \in 1..Len(text) : text[i] \in {"newline", "attached"}

\* a mutant of handleData: the next command is not tried after the chunk
handleDataNoNext(t, data) ==
    LET text == removeThreadAttachedText(ensureDebugPromptOnOwnLine(t.unhandledText \o data))
        t1 == [t EXCEPT !.unhandledText = text,
                        !.isAtDebuggerPrompt = endsWithDebuggerPrompt(text)]
    IN  IF ~t1.isAtDebuggerPrompt /\ endsWithThreadAttachedText(text)
        THEN SocketWrite(t1, "handleData", NoCommand)
        ELSE IF t1.activeCommand # <<>>
        THEN CommandHandleData(t1)
        ELSE IF HasLineBreak(text) \/ t1.isAtDebuggerPrompt
        THEN [Emit(t1, text) EXCEPT !.unhandledText = <<>>]
        ELSE t1

\* handleData(data), lines 105-146
handleData(t, data) ==
    LET text == removeThreadAttachedText(ensureDebugPromptOnOwnLine(t.unhandledText \o data))
        t1 == [t EXCEPT !.unhandledText = text,
                        !.isAtDebuggerPrompt = endsWithDebuggerPrompt(text)]
    IN  IF ~t1.isAtDebuggerPrompt /\ endsWithThreadAttachedText(text)
        THEN SocketWrite(t1, "handleData", NoCommand)
        ELSE LET t2 == IF t1.activeCommand # <<>>
                       THEN CommandHandleData(t1)
                       ELSE IF HasLineBreak(text) \/ t1.isAtDebuggerPrompt
                       THEN [Emit(t1, text) EXCEPT !.unhandledText = <<>>]
                       ELSE t1
             IN  executeNextCommand(t2)

\* a mutant of executeCommand: the command is pushed whatever the option says
executeCommandPush(t, wait, atFront) ==
    LET id == t.commandIdSequence
        t1 == [t EXCEPT !.commandIdSequence = @ + 1,
                        !.waitForPrompt[id] = wait,
                        !.insertAtFront[id] = atFront,
                        !.commands = Append(@, id)]
    IN  executeNextCommand(t1)

\* executeCommand(commandText, options), lines 164-196
executeCommand(t, wait, atFront) ==
    LET id == t.commandIdSequence
        t1 == [t EXCEPT !.commandIdSequence = @ + 1,
                        !.waitForPrompt[id] = wait,
                        !.insertAtFront[id] = atFront,
                        !.commands = IF atFront THEN <<id>> \o @ ELSE Append(@, id)]
    IN  executeNextCommand(t1)

\* the chunks of data: one token or two
Chunks == {<<a>> : a \in Tokens} \cup {<<a, b>> : a \in Tokens, b \in Tokens}

\* the 'data' listener of connect(), lines 93-97
OnData ==
    /\ client = "open"
    /\ \E data \in Chunks :
          /\ Len(unhandledText) + Len(data) <= MaxText
          /\ CommitPipeline(Microtasks(handleData(Pipeline, data)))

\* the chunks that answer the command `print 5`: its echo "print 5\r\n",
\* then "5\r\nwarning: operation may not be interruptible.\r\n", then the
\* prompt
PrintFiveChunks ==
    << <<"echo", "newline">>, <<"text", "newline", "warning", "newline">>, <<"prompt">> >>

\* the first k of these chunks, as one text
RECURSIVE PrintFiveText(_)
PrintFiveText(k) == IF k = 0 THEN <<>> ELSE PrintFiveText(k - 1) \o PrintFiveChunks[k]

\* the 'data' listener of connect(), lines 93-97, for the chunks that answer
\* `print 5`, which arrive one after the other while the command is active
OnPrintFiveData ==
    /\ client = "open"
    /\ activeCommand # <<>>
    /\ \E k \in 1..Len(PrintFiveChunks) :
          /\ unhandledText = PrintFiveText(k - 1)
          /\ CommitPipeline(Microtasks(handleData(Pipeline, PrintFiveChunks[k])))

\* a caller runs executeCommand
ExecuteCommand ==
    /\ commandIdSequence < MaxCommands
    /\ \E wait \in BOOLEAN, atFront \in BOOLEAN :
          CommitPipeline(Microtasks(executeCommand(Pipeline, wait, atFront)))

\* write(commandText), lines 152-154
Write ==
    /\ client # "destroyed"
    /\ CommitPipeline(SocketWrite(Pipeline, "write", NoCommand))

\* destroy(), lines 231-235
Destroy ==
    /\ client # "destroyed"
    /\ CommitPipeline([Pipeline EXCEPT !.client = "destroyed"])

\* the device closes the telnet socket: the socket emits 'end'.  connect()
\* (lines 93-97) registers a listener for 'data' and for nothing else, so no
\* code of the pipeline runs
OnSocketEnd ==
    /\ client = "open"
    /\ CommitPipeline([Pipeline EXCEPT !.client = "ended"])

\* a new TelnetRequestPipeline (lines 54-70, 103, 159); no command exists
InitTelnet ==
    /\ commands = <<>>
    /\ isAtDebuggerPrompt = FALSE
    /\ activeCommand = <<>>
    /\ unhandledText = <<>>
    /\ commandIdSequence = 0
    /\ waitForPrompt = [id \in CommandIds |-> TRUE]
    /\ promise = [id \in CommandIds |-> "pending"]
    /\ client = "open"
    /\ clientWrites = <<>>
    /\ settlements = <<>>
    /\ emitted = <<>>
    /\ insertAtFront = [id \in CommandIds |-> FALSE]

(***************************************************************************)
(* The debugger shell of the device, for the progress of the telnet        *)
(* pipeline: the device prints output that ends with the prompt once when  *)
(* the connection is made and once for every command written to it.  The   *)
(* output arrives in chunks; the last chunk ends with the prompt.          *)
(***************************************************************************)
VARIABLES
    owed,       \* the outputs ending with the prompt that the device has still to send
    written,    \* written[id]: how often command id has been written to the socket
    prompted,   \* turns over whenever the device ends an output with the prompt
    noticed     \* the device has sent a Thread attached notice

shellVars == <<owed, written, prompted, noticed>>

\* the outputs the device may owe at a time
MaxOwed == 2

\* the writes of a step that carry command id
WritesOf(t, id) ==
    Cardinality({i \in 1..Len(t.clientWrites) :
                    t.clientWrites[i].by = "command" /\ t.clientWrites[i].command = id})

\* the pipeline has run a handler on the chunk `data` and the device has
\* sent `sent` outputs that end with the prompt; it owes one for every line
\* written to it (a command, or the `print ""` of handleData line 126)
CommitShell(t, sent, data) ==
    /\ owed - sent + Len(t.clientWrites) <= MaxOwed
    /\ CommitPipeline(t)
    /\ owed' = owed - sent + Len(t.clientWrites)
    /\ written' = [id \in CommandIds |-> written[id] + WritesOf(t, id)]
    /\ prompted' = IF sent = 1 THEN ~prompted ELSE prompted
    /\ noticed' = (noticed \/ \E i \in 1..Len(data) : data[i] = "attached")

\* a caller runs executeCommand (lines 164-196)
ShellExecuteCommand ==
    /\ commandIdSequence < MaxCommands
    /\ \E wait \in BOOLEAN, atFront \in BOOLEAN :
          CommitShell(Microtasks(executeCommand(Pipeline, wait, atFront)), 0, <<>>)

\* the 'data' listener of connect(), lines 93-97: a chunk of an output that
\* the device owes, with more of the output to come
ShellOutput ==
    /\ owed > 0
    /\ \E data \in Chunks :
          /\ ~endsWithDebuggerPrompt(data)
          /\ Len(unhandledText) + Len(data) <= MaxText
          /\ CommitShell(Microtasks(handleData(Pipeline, data)), 0, data)

\* the 'data' listener of connect(), lines 93-97: the last chunk of an
\* output that the device owes; it ends with the prompt
ShellPrompt ==
    /\ owed > 0
    /\ \E data \in Chunks :
          /\ endsWithDebuggerPrompt(data)
          /\ Len(unhandledText) + Len(data) <= MaxText + 1
          /\ CommitShell(Microtasks(handleData(Pipeline, data)), 1, data)

\* the device owes the prompt it prints when the connection is made
InitShell ==
    /\ owed = 1
    /\ written = [id \in CommandIds |-> 0]
    /\ prompted = FALSE
    /\ noticed = FALSE

(***************************************************************************)
(* The message codec (debugProtocol/events).  A message is a record        *)
(* [type, success, readOffset, data] as the classes of the source are.     *)
(* Strings are byte sequences; packetLength is <<>> while undefined and    *)
(* <<n>> once it holds the number n.                                       *)
(***************************************************************************)
VARIABLES
    message,                \* the message built with fromJson
    messageBuffer,          \* message.toBuffer(), <<>> before the call
    decodedMessage          \* fromBuffer(messageBuffer)

codecVars == <<message, messageBuffer, decodedMessage>>

\* the longest string of a message, the longest list of a message
MaxDetail == 2
MaxEntries == 2

\* no message yet
NoMessage == [type |-> "none"]

\* an undefined field
Undefined == <<>>

\* new ThreadAttachedUpdate(): success, readOffset and data (lines 42-58)
ThreadAttachedUpdate ==
    [type |-> "ThreadAttachedUpdate", success |-> FALSE, readOffset |-> 0,
     data |-> [threadIndex |-> Undefined, stopReason |-> Undefined,
               stopReasonDetail |-> Undefined, packetLength |-> Undefined,
               requestId |-> 0, errorCode |-> 0, updateType |-> 3]]

\* new AllThreadsStoppedUpdate(): success, readOffset and data
AllThreadsStoppedUpdate ==
    [type |-> "AllThreadsStoppedUpdate", success |-> FALSE, readOffset |-> -1,
     data |-> [threadIndex |-> Undefined, stopReason |-> Undefined,
               stopReasonDetail |-> Undefined, packetLength |-> Undefined,
               requestId |-> 0, errorCode |-> 0, updateType |-> 2]]

\* new IOPortOpenedUpdate(): the fields its test expects of a built message
IOPortOpenedUpdate ==
    [type |-> "IOPortOpenedUpdate", success |-> FALSE, readOffset |-> 0,
     data |-> [port |-> Undefined, packetLength |-> Undefined,
               requestId |-> 0, errorCode |-> 0, updateType |-> 1]]

\* new ExecuteV3Response(): the fields its test expects of a built message
ExecuteV3Response ==
    [type |-> "ExecuteV3Response", success |-> FALSE, readOffset |-> 0,
     data |-> [executeSuccess |-> Undefined, runtimeStopCode |-> Undefined,
               compileErrors |-> Undefined, runtimeErrors |-> Undefined,
               otherErrors |-> Undefined, packetLength |-> Undefined,
               requestId |-> Undefined, errorCode |-> 0]]

\* new StackTraceV3Response(): success, readOffset and data (lines 55-71)
StackTraceV3Response ==
    [type |-> "StackTraceV3Response", success |-> FALSE, readOffset |-> 0,
     data |-> [entries |-> Undefined, packetLength |-> Undefined,
               requestId |-> Undefined, errorCode |-> 0]]

\* the class of a message type
MessageClass(type) ==
    CASE type = "ThreadAttachedUpdate" -> ThreadAttachedUpdate
      [] type = "AllThreadsStoppedUpdate" -> AllThreadsStoppedUpdate
      [] type = "IOPortOpenedUpdate" -> IOPortOpenedUpdate
      [] type = "ExecuteV3Response" -> ExecuteV3Response
      [] type = "StackTraceV3Response" -> StackTraceV3Response

\* protocolUtils.loadJson(event, data): the fields given replace the
\* defaults of the class
loadJson(event, data) ==
    [event EXCEPT !.data = [f \in DOMAIN event.data |->
                              IF f \in DOMAIN data THEN data[f] ELSE event.data[f]]]

\* fromJson(data) of the five classes: a new message loaded with data.
\* StackTraceV3Response (line 13) turns a missing entries list into [],
\* which an undefined list already is here
fromJson(type, data) == loadJson(MessageClass(type), data)

\* SmartBuffer.writeInt32LE: two's complement, least significant byte first
\* (% and \div round towards minus infinity)
Int32LE(n) == UInt32LE(n)

\* the concatenation of the buffers of a list
RECURSIVE Concat(_)
Concat(list) == IF list = <<>> THEN <<>> ELSE Head(list) \o Concat(Tail(list))

\* protocolUtils.insertCommonUpdateFields: the header of an update goes in
\* front of the body, packet_length being the length of the whole
insertCommonUpdateFields(update, body) ==
    UInt32LE(Len(body) + 16) \o UInt32LE(update.data.requestId)
        \o UInt32LE(update.data.errorCode) \o UInt32LE(update.data.updateType) \o body

\* protocolUtils.insertCommonResponseFields: the header of a response
insertCommonResponseFields(response, body) ==
    UInt32LE(Len(body) + 12) \o UInt32LE(response.data.requestId)
        \o UInt32LE(response.data.errorCode) \o body

\* ThreadAttachedUpdate.toBuffer(), the variant that writes stop_reason on four bytes
ThreadAttachedUpdate_toBufferWide(this) ==
    insertCommonUpdateFields(this,
        Int32LE(this.data.threadIndex) \o UInt32LE(this.data.stopReason)
            \o StringNT(this.data.stopReasonDetail))

\* ThreadAttachedUpdate.toBuffer(), lines 30-40
ThreadAttachedUpdate_toBuffer(this) ==
    insertCommonUpdateFields(this,
        Int32LE(this.data.threadIndex) \o <<this.data.stopReason>>
            \o StringNT(this.data.stopReasonDetail))

\* AllThreadsStoppedUpdate.toBuffer()
AllThreadsStoppedUpdate_toBuffer(this) ==
    insertCommonUpdateFields(this,
        Int32LE(this.data.threadIndex) \o <<this.data.stopReason>>
            \o StringNT(this.data.stopReasonDetail))

\* IOPortOpenedUpdate.toBuffer(): the port on four bytes
IOPortOpenedUpdate_toBuffer(this) ==
    insertCommonUpdateFields(this, UInt32LE(this.data.port))

\* the count of a list of strings and the strings, each with its NUL
StringList(list) ==
    UInt32LE(Len(list)) \o Concat([i \in 1..Len(list) |-> StringNT(list[i])])

\* ExecuteV3Response.toBuffer(): two bytes and three lists of strings
ExecuteV3Response_toBuffer(this) ==
    insertCommonResponseFields(this,
        <<IF this.data.executeSuccess THEN 1 ELSE 0>> \o <<this.data.runtimeStopCode>>
            \o StringList(this.data.compileErrors)
            \o StringList(this.data.runtimeErrors)
            \o StringList(this.data.otherErrors))

\* StackTraceV3Response.toBuffer(), the variant that writes the function
\* name without its NUL
StackTraceV3Response_toBufferNoNul(this) ==
    insertCommonResponseFields(this,
        UInt32LE(Len(this.data.entries))
            \o Concat([i \in 1..Len(this.data.entries) |->
                         UInt32LE(this.data.entries[i].lineNumber)
                             \o this.data.entries[i].functionName
                             \o StringNT(this.data.entries[i].filePath)]))

\* StackTraceV3Response.toBuffer(), lines 43-53
StackTraceV3Response_toBuffer(this) ==
    insertCommonResponseFields(this,
        UInt32LE(Len(this.data.entries))
            \o Concat([i \in 1..Len(this.data.entries) |->
                         UInt32LE(this.data.entries[i].lineNumber)
                             \o StringNT(this.data.entries[i].functionName)
                             \o StringNT(this.data.entries[i].filePath)]))

\* A reader is [event, b, off, ok, value]: the message being loaded, the
\* buffer, the read offset, whether no read has thrown so far, and the
\* value of the last read.  Take is one read of the SmartBuffer: a read
\* past the end throws, and protocolUtils.readStringNT throws when no NUL
\* follows
Take(r, kind) ==
    IF ~r.ok THEN r
    ELSE CASE kind = "UInt32LE" ->
                IF r.off + 4 > Len(r.b) THEN [r EXCEPT !.ok = FALSE]
                ELSE [r EXCEPT !.value = ReadUInt32LE(r.b, r.off), !.off = @ + 4]
           [] kind = "Int32LE" ->
                IF r.off + 4 > Len(r.b) THEN [r EXCEPT !.ok = FALSE]
                ELSE [r EXCEPT !.value = ReadInt32LE(r.b, r.off), !.off = @ + 4]
           [] kind = "UInt8" ->
                IF r.off + 1 > Len(r.b) THEN [r EXCEPT !.ok = FALSE]
                ELSE [r EXCEPT !.value = r.b[r.off + 1], !.off = @ + 1]
           [] kind = "StringNT" ->
                IF NullPos(r.b, r.off) >= Len(r.b) THEN [r EXCEPT !.ok = FALSE]
                ELSE [r EXCEPT !.value = ReadStringNT(r.b, r.off).value,
                               !.off = ReadStringNT(r.b, r.off).readOffset]

\* event.data[field] = the next value of the buffer
Read(r, field, kind) ==
    LET t == Take(r, kind)
    IN  IF t.ok /\ r.ok THEN [t EXCEPT !.event.data[field] = t.value] ELSE t

\* protocolUtils.loadCommonResponseFields: packet_length, request_id, error_code
loadCommonResponseFields(r) ==
    LET p == Take(r, "UInt32LE")
        q == IF p.ok /\ r.ok THEN [p EXCEPT !.event.data.packetLength = <<p.value>>] ELSE p
    IN  Read(Read(q, "requestId", "UInt32LE"), "errorCode", "UInt32LE")

\* protocolUtils.loadCommonUpdateFields: the fields of a response, then
\* request_id must be 0 and update_type the one of the class
loadCommonUpdateFields(r, updateType) ==
    LET c == loadCommonResponseFields(r)
        d == IF c.ok /\ c.event.data.requestId # 0 THEN [c EXCEPT !.ok = FALSE] ELSE c
        u == Take(d, "UInt32LE")
    IN  IF ~u.ok THEN u
        ELSE IF u.value # updateType
             THEN [u EXCEPT !.ok = FALSE, !.event.data.updateType = u.value]
             ELSE [u EXCEPT !.event.data.updateType = u.value]

\* SmartBuffer.fromBuffer(buffer): the reader the processor of a message
\* class is given
Reader(event, b) == [event |-> event, b |-> b, off |-> 0, ok |-> TRUE, value |-> 0]

\* protocolUtils.bufferLoaderHelper(event, buffer, minByteLength, processor),
\* r being the reader as the processor leaves it: a buffer below the minimum
\* is not read at all; the message is a success with the read offset of the
\* reader unless a read has thrown
bufferLoaderHelper(event, b, minByteLength, r) ==
    IF Len(b) < minByteLength THEN event
    ELSE IF r.ok THEN [r.event EXCEPT !.success = TRUE, !.readOffset = r.off]
         ELSE [r.event EXCEPT !.success = FALSE]

\* ThreadAttachedUpdate.fromBuffer(buffer), lines 19-28
ThreadAttachedUpdate_fromBuffer(b) ==
    bufferLoaderHelper(ThreadAttachedUpdate, b, 12,
        LET r == Reader(ThreadAttachedUpdate, b)
        IN  Read(Read(Read(loadCommonUpdateFields(r, ThreadAttachedUpdate.data.updateType),
                                  "threadIndex", "Int32LE"),
                             "stopReason", "UInt8"),
                        "stopReasonDetail", "StringNT"))

\* AllThreadsStoppedUpdate.fromBuffer(buffer)
AllThreadsStoppedUpdate_fromBuffer(b) ==
    bufferLoaderHelper(AllThreadsStoppedUpdate, b, 16,
        LET r == Reader(AllThreadsStoppedUpdate, b)
        IN  Read(Read(Read(loadCommonUpdateFields(r, AllThreadsStoppedUpdate.data.updateType),
                                  "threadIndex", "Int32LE"),
                             "stopReason", "UInt8"),
                        "stopReasonDetail", "StringNT"))

\* IOPortOpenedUpdate.fromBuffer(buffer): the header of an update and the port
IOPortOpenedUpdate_fromBuffer(b) ==
    bufferLoaderHelper(IOPortOpenedUpdate, b, 16,
        LET r == Reader(IOPortOpenedUpdate, b)
        IN  Read(loadCommonUpdateFields(r, IOPortOpenedUpdate.data.updateType),
                        "port", "UInt32LE"))

\* count strings of the buffer, pushed to the list event.data[field]
RECURSIVE ReadStrings(_, _, _)
ReadStrings(r, field, count) ==
    IF count = 0 \/ ~r.ok THEN r
    ELSE LET t == Take(r, "StringNT")
         IN  ReadStrings(IF t.ok THEN [t EXCEPT !.event.data[field] = Append(@, t.value)] ELSE t,
                         field, count - 1)

\* event.data[field] = [], then the count of the list and its strings
ReadStringList(r, field) ==
    LET n == Take(r, "UInt32LE")
    IN  IF ~n.ok THEN n
        ELSE ReadStrings([n EXCEPT !.event.data[field] = <<>>], field, n.value)

\* ExecuteV3Response.fromBuffer(buffer): the header of a response, the two
\* bytes and the three lists
ExecuteV3Response_fromBuffer(b) ==
    bufferLoaderHelper(ExecuteV3Response, b, 12,
        LET r == Reader(ExecuteV3Response, b) IN
            LET s == Read(loadCommonResponseFields(r), "executeSuccess", "UInt8")
                e == IF s.ok THEN [s EXCEPT !.event.data.executeSuccess = (s.value # 0)] ELSE s
            IN  ReadStringList(ReadStringList(ReadStringList(
                    Read(e, "runtimeStopCode", "UInt8"),
                    "compileErrors"), "runtimeErrors"), "otherErrors"))

\* the loop of StackTraceV3Response.fromBuffer, lines 27-38
RECURSIVE ReadStackEntries(_, _)
ReadStackEntries(r, stackSize) ==
    IF stackSize = 0 \/ ~r.ok THEN r
    ELSE LET l == Take(r, "UInt32LE")
             f == Take(l, "StringNT")
             p == Take(f, "StringNT")
         IN  ReadStackEntries(
                 IF p.ok
                 THEN [p EXCEPT !.event.data.entries =
                          Append(@, [lineNumber |-> l.value, functionName |-> f.value,
                                     filePath |-> p.value])]
                 ELSE p,
                 stackSize - 1)

\* StackTraceV3Response.fromBuffer(buffer), lines 17-41
StackTraceV3Response_fromBuffer(b) ==
    bufferLoaderHelper(StackTraceV3Response, b, 16,
        LET r == Reader(StackTraceV3Response, b) IN
            LET n == Take(loadCommonResponseFields(r), "UInt32LE")
            IN  IF ~n.ok THEN n
                ELSE ReadStackEntries([n EXCEPT !.event.data.entries = <<>>], n.value))

\* the strings of the messages: up to MaxDetail letters, no NUL among them,
\* and 'because', the reason detail of ThreadAttachedUpdate.spec.ts
CodecStrings ==
    UNION {[1..n -> {97, 98}] : n \in 0..MaxDetail}
        \cup {<<98, 101, 99, 97, 117, 115, 101>>}

\* the lists of the messages: up to MaxEntries values
Lists(values) == UNION {[1..n -> values] : n \in 0..MaxEntries}

\* the data given to fromJson, by class: the fields of its parameter type
JsonData(type) ==
    CASE type \in {"ThreadAttachedUpdate", "AllThreadsStoppedUpdate"} ->
            [threadIndex : {-1, 0, 1}, stopReason : {0, 4, 5},
             stopReasonDetail : CodecStrings]
      [] type = "IOPortOpenedUpdate" -> [port : {0, 1234, 8085}]
      [] type = "ExecuteV3Response" ->
            [requestId : {3}, executeSuccess : BOOLEAN, runtimeStopCode : {4, 5},
             compileErrors : Lists({<<>>, <<99>>}), runtimeErrors : Lists({<<>>, <<114>>}),
             otherErrors : Lists({<<111>>})]
      [] type = "StackTraceV3Response" ->
            [requestId : {1, 3},
             entries : Lists([lineNumber : {10, 300}, functionName : {<<>>, <<109>>},
                              filePath : {<<112, 107, 103>>}])]

\* a message is built: X.fromJson(data)
FromJson ==
    /\ message = NoMessage
    /\ \E type \in {"ThreadAttachedUpdate", "AllThreadsStoppedUpdate", "IOPortOpenedUpdate",
                    "ExecuteV3Response", "StackTraceV3Response"} :
          \E data \in JsonData(type) : message' = fromJson(type, data)
    /\ UNCHANGED <<messageBuffer, decodedMessage>>

\* message.toBuffer(): the bytes of the message; the common fields helper
\* leaves the packet length in message.data
ToBuffer ==
    /\ message # NoMessage
    /\ messageBuffer = <<>>
    /\ messageBuffer' =
          CASE message.type = "ThreadAttachedUpdate" -> ThreadAttachedUpdate_toBuffer(message)
            [] message.type = "AllThreadsStoppedUpdate" -> AllThreadsStoppedUpdate_toBuffer(message)
            [] message.type = "IOPortOpenedUpdate" -> IOPortOpenedUpdate_toBuffer(message)
            [] message.type = "ExecuteV3Response" -> ExecuteV3Response_toBuffer(message)
            [] message.type = "StackTraceV3Response" -> StackTraceV3Response_toBuffer(message)
    /\ message' = [message EXCEPT !.data.packetLength = <<Len(messageBuffer')>>]
    /\ UNCHANGED decodedMessage

\* X.fromBuffer(message.toBuffer()), X the class of the message
FromBuffer ==
    /\ messageBuffer # <<>>
    /\ decodedMessage = NoMessage
    /\ decodedMessage' =
          CASE message.type = "ThreadAttachedUpdate" -> ThreadAttachedUpdate_fromBuffer(messageBuffer)
            [] message.type = "AllThreadsStoppedUpdate" -> AllThreadsStoppedUpdate_fromBuffer(messageBuffer)
            [] message.type = "IOPortOpenedUpdate" -> IOPortOpenedUpdate_fromBuffer(messageBuffer)
            [] message.type = "ExecuteV3Response" -> ExecuteV3Response_fromBuffer(messageBuffer)
            [] message.type = "StackTraceV3Response" -> StackTraceV3Response_fromBuffer(messageBuffer)
    /\ UNCHANGED <<message, messageBuffer>>

\* no message has been built
InitCodec ==
    /\ message = NoMessage
    /\ messageBuffer = <<>>
    /\ decodedMessage = NoMessage

(***************************************************************************)
(* DebugProtocolServer, the emulated server.  A call of process() is a     *)
(* record of `processes` from its first await to its end: pc names the     *)
(* plugin event it awaits.  ActionQueue.run invokes the action of a 'data' *)
(* event at once when the queue is empty, and the action returns true      *)
(* without awaiting process() (lines 74-78), so the item is shifted in the *)
(* microtasks of the same event: every 'data' event finds the queue empty. *)
(***************************************************************************)
VARIABLES
    isHandshakeComplete,    \* this.isHandshakeComplete
    serverBuffer,           \* this.buffer
    processes,              \* the calls of process() that await a plugin event
    serverWrites,           \* the responses written with client.write, in order
    received,               \* every byte of the 'data' events so far
    chunksReceived          \* the number of 'data' events so far

serverVars == <<isHandshakeComplete, serverBuffer, processes, serverWrites,
                received, chunksReceived>>

\* the 'data' events of a connection
MaxServerChunks == 3

\* get magic(), lines 209-211, with no magic among the options
magic == DEBUGGER_MAGIC

\* new HandshakeRequestV3(buffer): the magic is the string before the first
\* NUL; a buffer without a NUL is no handshake request
HandshakeRequestV3(b) ==
    IF NullPos(b, 0) >= Len(b) THEN [success |-> FALSE, data |-> [magic |-> Undefined]]
    ELSE [success |-> TRUE, data |-> [magic |-> ReadStringNT(b, 0).value]]

\* new HandshakeResponseV3({...}), lines 120-127
HandshakeResponseV3(data) == [type |-> "HandshakeResponseV3", data |-> data]

\* the start of sendResponse(response), lines 154-158: the call awaits the
\* handlers of beforeSendResponse
sendResponse(p, response) ==
    [p EXCEPT !.pc = "beforeSendResponse", !.response = response]

\* a call of process() before its first statement
NewProcess ==
    [pc |-> "start", buffer |-> <<>>, provided |-> Undefined, request |-> Undefined,
     response |-> Undefined]

\* process() up to its first await, lines 107-135, the variant that does not
\* compare the magic
processAnyMagic(b, complete) ==
    IF ~complete
    THEN IF HandshakeRequestV3(b).success
         THEN [isHandshakeComplete |-> TRUE,
               started |-> <<sendResponse(NewProcess,
                               HandshakeResponseV3([magic |-> magic, majorVersion |-> 3,
                                                    minorVersion |-> 1, patchVersion |-> 0]))>>]
         ELSE [isHandshakeComplete |-> complete, started |-> <<>>]
    ELSE [isHandshakeComplete |-> complete,
          started |-> <<[NewProcess EXCEPT !.pc = "provideRequest", !.buffer = b]>>]

\* process() up to its first await, lines 107-135, with b for this.buffer:
\* the new isHandshakeComplete and the call left awaiting, if any
process(b, complete) ==
    IF ~complete
    THEN IF HandshakeRequestV3(b).success /\ HandshakeRequestV3(b).data.magic = magic
         THEN [isHandshakeComplete |-> TRUE,
               started |-> <<sendResponse(NewProcess,
                               HandshakeResponseV3([magic |-> magic, majorVersion |-> 3,
                                                    minorVersion |-> 1, patchVersion |-> 0]))>>]
         ELSE [isHandshakeComplete |-> complete, started |-> <<>>]
    ELSE [isHandshakeComplete |-> complete,
          started |-> <<[NewProcess EXCEPT !.pc = "provideRequest", !.buffer = b]>>]

\* the chunks a client sends: a handshake request, its two parts, a request
\* with another magic, and the byte of a request
ServerChunks ==
    {StringNT(DEBUGGER_MAGIC), <<98, 115, 100>>, <<101, 98, 117, 103, 0>>,
     StringNT(BadMagic), <<1>>}

\* client.on('data'), lines 72-79: the action of the queue appends the chunk
\* and calls process()
ServerOnData ==
    /\ chunksReceived < MaxServerChunks
    /\ \E data \in ServerChunks :
          LET b == serverBuffer \o data
              run == process(b, isHandshakeComplete)
          IN  /\ serverBuffer' = b
              /\ received' = received \o data
              /\ isHandshakeComplete' = run.isHandshakeComplete
              /\ processes' = processes \o run.started
    /\ chunksReceived' = chunksReceived + 1
    /\ UNCHANGED serverWrites

\* the sequence q without its element i
RemoveAt(q, i) == SubSeq(q, 1, i - 1) \o SubSeq(q, i + 1, Len(q))

\* the lengths of the request a provideRequest handler may parse out of the
\* buffer b of its event: nothing (no request), or all of it
RequestLengths(b) == {0, Len(b)}

\* the handlers of provideRequest return, lines 131-145: the plugin has taken
\* a request from the front of event.buffer and left the residual there;
\* this.buffer becomes the residual, and provideResponse is emitted with the
\* local variable request of line 108, which nothing assigns
ProvideRequest ==
    \E i \in 1..Len(processes) :
        /\ processes[i].pc = "provideRequest"
        /\ \E k \in RequestLengths(processes[i].buffer) :
              /\ serverBuffer' = SubSeq(processes[i].buffer, k + 1, Len(processes[i].buffer))
              /\ processes' = [processes EXCEPT ![i] =
                                 [@ EXCEPT !.pc = "provideResponse",
                                           !.provided = SubSeq(processes[i].buffer, 1, k),
                                           !.request = Undefined]]
        /\ UNCHANGED <<isHandshakeComplete, serverWrites, received, chunksReceived>>

\* the handlers of provideResponse return, lines 141-147: the plugin answers
\* the request of its event, and sendResponse is called with its response
ProvideResponse ==
    \E i \in 1..Len(processes) :
        /\ processes[i].pc = "provideResponse"
        /\ processes' = [processes EXCEPT ![i] =
                           sendResponse(@, [type |-> "response", request |-> @.request])]
        /\ UNCHANGED <<isHandshakeComplete, serverBuffer, serverWrites, received,
                       chunksReceived>>

\* the handlers of beforeSendResponse return, lines 160-165: the response is
\* written and afterSendResponse is emitted
BeforeSendResponse ==
    \E i \in 1..Len(processes) :
        /\ processes[i].pc = "beforeSendResponse"
        /\ serverWrites' = Append(serverWrites, processes[i].response)
        /\ processes' = [processes EXCEPT ![i].pc = "afterSendResponse"]
        /\ UNCHANGED <<isHandshakeComplete, serverBuffer, received, chunksReceived>>

\* the handlers of afterSendResponse return: the call of process() is over
AfterSendResponse ==
    \E i \in 1..Len(processes) :
        /\ processes[i].pc = "afterSendResponse"
        /\ processes' = RemoveAt(processes, i)
        /\ UNCHANGED <<isHandshakeComplete, serverBuffer, serverWrites, received,
                       chunksReceived>>

\* a new DebugProtocolServer (lines 28-30) and its connection
InitServer ==
    /\ isHandshakeComplete = FALSE
    /\ serverBuffer = <<>>
    /\ processes = <<>>
    /\ serverWrites = <<>>
    /\ received = <<>>
    /\ chunksReceived = 0

(***************************************************************************)
(* The specifications, one per component.                                  *)
(***************************************************************************)
vars == <<queueVars, clientVars, telnetVars, codecVars, serverVars, shellVars>>

InitAll == InitQueue /\ InitClient /\ InitTelnet /\ InitCodec /\ InitServer /\ InitShell

\* a step of ActionQueue; the client session is no part of it
NextQueue ==
    \/ Run /\ UNCHANGED <<clientVars, telnetVars, codecVars, serverVars, shellVars>>
    \/ ResumeTrue /\ UNCHANGED <<clientVars, telnetVars, codecVars, serverVars, shellVars>>
    \/ ResumeFalse /\ UNCHANGED <<clientVars, telnetVars, codecVars, serverVars, shellVars>>
    \/ ResumeReject /\ UNCHANGED <<clientVars, telnetVars, codecVars, serverVars, shellVars>>

SpecQueue == InitAll /\ [][NextQueue]_vars

\* a step of the client session: a command method is called or the
\* control socket emits an event
NextClient ==
    \/ CallContinue /\ UNCHANGED <<queueVars, telnetVars, codecVars, serverVars, shellVars>>
    \/ CallPause /\ UNCHANGED <<queueVars, telnetVars, codecVars, serverVars, shellVars>>
    \/ CallExitChannel /\ UNCHANGED <<queueVars, telnetVars, codecVars, serverVars, shellVars>>
    \/ CallStepIn /\ UNCHANGED <<queueVars, telnetVars, codecVars, serverVars, shellVars>>
    \/ CallStepOver /\ UNCHANGED <<queueVars, telnetVars, codecVars, serverVars, shellVars>>
    \/ CallStepOut /\ UNCHANGED <<queueVars, telnetVars, codecVars, serverVars, shellVars>>
    \/ CallThreads /\ UNCHANGED <<queueVars, telnetVars, codecVars, serverVars, shellVars>>
    \/ CallStackTrace /\ UNCHANGED <<queueVars, telnetVars, codecVars, serverVars, shellVars>>
    \/ CallGetVariables /\ UNCHANGED <<queueVars, telnetVars, codecVars, serverVars, shellVars>>
    \/ OnFrame /\ UNCHANGED <<queueVars, telnetVars, codecVars, serverVars, shellVars>>
    \/ OnTwoFrames /\ UNCHANGED <<queueVars, telnetVars, codecVars, serverVars, shellVars>>
    \/ OnHandshakeAndUpdate /\ UNCHANGED <<queueVars, telnetVars, codecVars, serverVars, shellVars>>
    \/ OnFirstPart /\ UNCHANGED <<queueVars, telnetVars, codecVars, serverVars, shellVars>>
    \/ OnRest /\ UNCHANGED <<queueVars, telnetVars, codecVars, serverVars, shellVars>>
    \/ OnEnd /\ UNCHANGED <<queueVars, telnetVars, codecVars, serverVars, shellVars>>

SpecClient == InitAll /\ [][NextClient]_vars

(***************************************************************************)
(* The client session with a device that keeps to the protocol: it sends   *)
(* the handshake first, one well-formed answer to every request, in the    *)
(* order of the requests, and updates; the socket cuts updates into chunks *)
(* where it likes.                                                         *)
(***************************************************************************)
\* the ids of the requests written to the socket
Written == {socketWrites[n] : n \in 1..Len(socketWrites)}

\* the requests the device has not answered
Unanswered == Written \ answered

\* the answer to request id: a list body for the commands that have one
AnswerFrame(id) ==
    IF id \in DOMAIN activeRequests
          /\ activeRequests[id].commandType \in {"THREADS", "STACKTRACE", "VARIABLES"}
    THEN ResponseFrame(id, OneEntryBody)
    ELSE ResponseFrame(id, <<>>)

DeviceHandshake ==
    /\ ~handshakeComplete
    /\ wire = <<>>
    /\ Receive(HandshakeFrame(DEBUGGER_MAGIC, <<3, 1, 0>>))
    /\ wire' = <<>>
    /\ UNCHANGED answered

DeviceAnswer ==
    /\ handshakeComplete
    /\ wire = <<>>
    /\ Unanswered # {}
    /\ LET id == CHOOSE i \in Unanswered : \A j \in Unanswered : i <= j
       \* the answer arrives behind whatever waits in unhandledData
       IN  /\ Deliver(AnswerFrame(id), MaxBuffer + Len(AnswerFrame(id)))
           /\ answered' = answered \cup {id}
    /\ wire' = <<>>

DeviceUpdate ==
    /\ handshakeComplete
    /\ wire = <<>>
    /\ \E frame \in UpdateFrames : Receive(frame)
    /\ wire' = <<>>
    /\ UNCHANGED answered

DeviceUpdateInParts ==
    /\ handshakeComplete
    /\ wire = <<>>
    /\ \E frame \in UpdateFrames, k \in Cuts :
          /\ k < Len(frame)
          /\ Receive(SubSeq(frame, 1, k))
          /\ wire' = Slice(frame, k)
    /\ UNCHANGED answered

\* the caller calls the command methods once the handshake is complete
NextDevice ==
    \/ DeviceHandshake /\ UNCHANGED <<queueVars, telnetVars, codecVars, serverVars, shellVars>>
    \/ DeviceAnswer /\ UNCHANGED <<queueVars, telnetVars, codecVars, serverVars, shellVars>>
    \/ DeviceUpdate /\ UNCHANGED <<queueVars, telnetVars, codecVars, serverVars, shellVars>>
    \/ DeviceUpdateInParts /\ UNCHANGED <<queueVars, telnetVars, codecVars, serverVars, shellVars>>
    \/ OnRest /\ UNCHANGED <<queueVars, telnetVars, codecVars, serverVars, shellVars>>
    \/ OnEnd /\ UNCHANGED <<queueVars, telnetVars, codecVars, serverVars, shellVars>>
    \/ handshakeComplete /\ CallContinue /\ UNCHANGED <<queueVars, telnetVars, codecVars, serverVars, shellVars>>
    \/ handshakeComplete /\ CallPause /\ UNCHANGED <<queueVars, telnetVars, codecVars, serverVars, shellVars>>
    \/ handshakeComplete /\ CallExitChannel /\ UNCHANGED <<queueVars, telnetVars, codecVars, serverVars, shellVars>>
    \/ handshakeComplete /\ CallStepIn /\ UNCHANGED <<queueVars, telnetVars, codecVars, serverVars, shellVars>>
    \/ handshakeComplete /\ CallStepOver /\ UNCHANGED <<queueVars, telnetVars, codecVars, serverVars, shellVars>>
    \/ handshakeComplete /\ CallStepOut /\ UNCHANGED <<queueVars, telnetVars, codecVars, serverVars, shellVars>>
    \/ handshakeComplete /\ CallThreads /\ UNCHANGED <<queueVars, telnetVars, codecVars, serverVars, shellVars>>
    \/ handshakeComplete /\ CallStackTrace /\ UNCHANGED <<queueVars, telnetVars, codecVars, serverVars, shellVars>>
    \/ handshakeComplete /\ CallGetVariables /\ UNCHANGED <<queueVars, telnetVars, codecVars, serverVars, shellVars>>

SpecDevice == InitAll /\ [][NextDevice]_vars

\* a step of the telnet pipeline
NextTelnet ==
    \/ OnData /\ UNCHANGED <<queueVars, clientVars, codecVars, serverVars, shellVars>>
    \/ OnPrintFiveData /\ UNCHANGED <<queueVars, clientVars, codecVars, serverVars, shellVars>>
    \/ ExecuteCommand /\ UNCHANGED <<queueVars, clientVars, codecVars, serverVars, shellVars>>
    \/ Write /\ UNCHANGED <<queueVars, clientVars, codecVars, serverVars, shellVars>>
    \/ Destroy /\ UNCHANGED <<queueVars, clientVars, codecVars, serverVars, shellVars>>
    \/ OnSocketEnd /\ UNCHANGED <<queueVars, clientVars, codecVars, serverVars, shellVars>>

SpecTelnet == InitAll /\ [][NextTelnet]_vars

\* a step of the telnet pipeline and the debugger shell of the device
NextShell ==
    \/ ShellExecuteCommand /\ UNCHANGED <<queueVars, clientVars, codecVars, serverVars>>
    \/ ShellOutput /\ UNCHANGED <<queueVars, clientVars, codecVars, serverVars>>
    \/ ShellPrompt /\ UNCHANGED <<queueVars, clientVars, codecVars, serverVars>>

\* the device sends the output it owes: ShellPrompt is enabled whenever
\* owed > 0 (the chunk that is the prompt alone is always taken) and it is
\* the only step that turns `prompted` over
PromptSent == owed > 0 /\ prompted' = ~prompted

ShellFairness == WF_prompted(PromptSent)

SpecShell == InitAll /\ [][NextShell]_vars /\ ShellFairness

\* a step of the codec: a message is built, encoded or decoded
NextCodec ==
    \/ FromJson /\ UNCHANGED <<queueVars, clientVars, telnetVars, serverVars, shellVars>>
    \/ ToBuffer /\ UNCHANGED <<queueVars, clientVars, telnetVars, serverVars, shellVars>>
    \/ FromBuffer /\ UNCHANGED <<queueVars, clientVars, telnetVars, serverVars, shellVars>>

SpecCodec == InitAll /\ [][NextCodec]_vars

\* a step of the emulated server: a 'data' event, or the handlers of a
\* plugin event return to a call of process()
NextServer ==
    \/ ServerOnData /\ UNCHANGED <<queueVars, clientVars, telnetVars, codecVars, shellVars>>
    \/ ProvideRequest /\ UNCHANGED <<queueVars, clientVars, telnetVars, codecVars, shellVars>>
    \/ ProvideResponse /\ UNCHANGED <<queueVars, clientVars, telnetVars, codecVars, shellVars>>
    \/ BeforeSendResponse /\ UNCHANGED <<queueVars, clientVars, telnetVars, codecVars, shellVars>>
    \/ AfterSendResponse /\ UNCHANGED <<queueVars, clientVars, telnetVars, codecVars, shellVars>>

SpecServer == InitAll /\ [][NextServer]_vars

(***************************************************************************)
(* Claims about ActionQueue, checked under SpecQueue.                      *)
(***************************************************************************)

\* the loops suspended at the await of line 27: one invocation in flight each
InFlight == {l \in 1..MaxRuns : loopItem[l] # 0}

\* C2: the queue does not re-enter itself: at every moment at most one
\* action invocation is in flight (invoked, result not yet delivered).
C2_NoReentry == Cardinality(InFlight) <= 1

\* C3: FIFO order: items leave the queue in the order of their run() calls,
\* and an item's action is invoked only when every item of an earlier run()
\* call has already been removed from the queue.
C3_Fifo ==
    /\ \A i, j \in 1..Len(removed) : i < j => removed[i] < removed[j]
    /\ \A b \in invoked : \A a \in 1..(b - 1) :
          \E i \in 1..Len(removed) : removed[i] = a

\* a later item has been invoked after an earlier one was queued and removed
C3_Witness ==
    /\ Len(removed) >= 2
    /\ runCalls = MaxRuns
    /\ \E l \in 1..MaxRuns : loopItem[l] = MaxRuns

\* C4: the result delivered by an invocation decides the fate of the item
\* that was invoked, and of no other: true removes it and resolves its
\* deferred, a rejection removes it and rejects its deferred, false leaves
\* the queue alone and the same action is invoked again.
C4_HeadFate ==
    /\ lastResume.result = "true" =>
          /\ lastResume.shifted = lastResume.item
          /\ deferred[lastResume.item] = "resolved"
    /\ lastResume.result = "reject" =>
          /\ lastResume.shifted = lastResume.item
          /\ deferred[lastResume.item] = "rejected"
    /\ lastResume.result = "false" =>
          /\ lastResume.shifted = 0
          /\ lastResume.again = lastResume.item

\* C30: every action passed to run() is invoked (an item that is the head of
\* the queue or has left it has been invoked), and an item leaves the queue
\* only by the result of an invocation of its own action: the continuation
\* that delivers the result of an invocation removes the item invoked and
\* settles its deferred, and no other, however the run() calls overlap.
C30_OwnInvocationOnly ==
    /\ \A i \in 1..Len(removed) : removed[i] \in invoked
    /\ queueItems # <<>> => Head(queueItems) \in invoked
    /\ lastResume.shifted \in {0, lastResume.item}
    /\ lastResume.settled \in {0, lastResume.item}

(***************************************************************************)
(* Claims about BrightscriptDebugger, checked under SpecClient.            *)
(***************************************************************************)

\* the command methods that are gated on `stopped`
Gated == {"continue", "stepIn", "stepOver", "stepOut", "threads", "stackTrace",
          "getVariables"}

\* the commands these methods request
GatedCommands == {"CONTINUE", "STEP", "THREADS", "STACKTRACE", "VARIABLES"}

\* C5: called while stopped is false, a gated command method returns -1
\* and changes nothing (no write to the socket, totalRequests,
\* activeRequests and stopped as before); a request for a gated command is
\* written to the socket only while stopped is true.
C5_StoppedGating ==
    /\ (lastCall.op \in Gated /\ ~lastCall.stoppedBefore) =>
          /\ lastCall.ret = -1
          /\ ~lastCall.changed
          /\ lastWrite = <<>>
          /\ ~stopped
    /\ \A i \in 1..Len(lastWrite) :
          lastWrite[i].command \in GatedCommands => lastWrite[i].stopped

\* a gated method has been refused in a session that has written a request
\* before (a pause), and in another step gated requests were written
C5_Witness ==
    /\ lastCall.op \in Gated
    /\ ~lastCall.stoppedBefore
    /\ lastCall.ret = -1
    /\ totalRequests >= 1

\* the request id in the bytes of a request written to the socket
WrittenId(w) == ReadUInt32LE(w.bytes, 4)

\* C6: the n-th request written to the socket carries request id n (so no
\* id is 0 and no two requests share one), totalRequests counts the
\* requests written and never decreases, and a command that is refused
\* (returns -1) consumes no id.
C6_RequestIds ==
    /\ [](/\ \A n \in 1..Len(socketWrites) : socketWrites[n] = n
          /\ Len(socketWrites) = totalRequests
          /\ \A i \in 1..Len(lastWrite) :
                WrittenId(lastWrite[i]) = totalRequests - Len(lastWrite) + i
          /\ lastCall.ret = -1 => ~lastCall.changed)
    /\ [][totalRequests' >= totalRequests]_vars

\* the session has written as many requests as it may, several of them in
\* one step
C6_Witness ==
    /\ totalRequests = MaxRequests
    /\ Len(lastWrite) >= 2

\* C7: activeRequests holds exactly the ids of the requests written to the
\* socket whose response has not been consumed, and a response is consumed
\* only for a request that was written, once.
C7_ActiveRequests ==
    /\ DOMAIN activeRequests = {id \in Written : dispatched[id] = 0}
    /\ \A id \in RequestIds : dispatched[id] > 0 => id \in Written /\ dispatched[id] = 1

\* requests are outstanding together and one that was written later has
\* been answered before one written earlier
C7_Witness ==
    \E a, b \in Written :
        a < b /\ a \in DOMAIN activeRequests /\ dispatched[b] = 1

\* the session is over: the socket has ended or the process has stopped on
\* an uncaught exception
Terminated == socketEnded \/ faulted

\* C8: every request is answered once or the session terminates: no
\* response is dispatched twice, none after the session has terminated, and
\* a request does not stay outstanding in a session that runs on: once the
\* answer of the device has been delivered in full, it has been dispatched.
C8_AnsweredOrTerminated ==
    /\ [](\A id \in RequestIds : dispatched[id] <= 1)
    /\ [](\A id \in answered : (wire = <<>> /\ ~Terminated) => dispatched[id] = 1)
    /\ [][Terminated => dispatched' = dispatched]_vars

\* C9: a response whose request id has no record in activeRequests does not
\* make parsing fault: no exception leaves the 'data' callback.
C9_UnknownRequestId == ~faulted

\* C10: before the handshake is complete nothing but a handshake is
\* decoded (no response, no update), no request record is removed, and
\* handshakeComplete, once true, stays true.
C10_HandshakeFirst ==
    /\ [](\A e \in decoded : e.kind # "handshake" => e.handshakeComplete)
    /\ [][~handshakeComplete' => DOMAIN activeRequests \subseteq DOMAIN activeRequests']_vars
    /\ [][handshakeComplete => handshakeComplete']_vars

\* before the handshake the bytes of the answer to an outstanding request
\* have arrived and wait in unhandledData
C10_Witness ==
    /\ ~handshakeComplete
    /\ Len(unhandledData) >= 8
    /\ ReadUInt32LE(unhandledData, 0) \in DOMAIN activeRequests

\* the handshakes decoded in the latest step
Handshakes == {e \in decoded : e.kind = "handshake"}

C11_WitnessBadMagic == \E e \in Handshakes : e.frame.magic # DEBUGGER_MAGIC

\* the threads updates of type AllThreadsStopped decoded in the latest step
StopsDecoded ==
    {e \in decoded : e.kind = "threads" /\ e.updateType = "ALL_THREADS_STOPPED"}

\* C15: an AllThreadsStopped update handled after the first-run continue
\* has fired leaves stopped = true, primaryThread equal to the primary
\* thread index of the update and stackFrameIndex = 0 (of the updates
\* decoded from one chunk, the last one decides).
C15_StopSetsThread ==
    \A e \in StopsDecoded :
        (e.firstRunContinueFired /\ \A f \in StopsDecoded : f.n <= e.n) =>
            /\ stopped
            /\ primaryThread = <<e.threadIndex>>
            /\ stackFrameIndex = <<0>>

\* a later stop has been handled, on another thread than the one before, and
\* the session has written its four requests
C15_Witness ==
    /\ \E e \in StopsDecoded : e.firstRunContinueFired /\ e.threadIndex = 0
    /\ Len(lastWrite) = 4
    /\ dispatched[1] = 1

\* the update decoder that takes the buffer b: the first that succeeds, in
\* the order threads update, undefined update, IO-port update
FirstUpdateDecoder(b) ==
    IF DebuggerUpdateThreads(b).success THEN "threads"
    ELSE IF DebuggerUpdateUndefined(b).success THEN "undefined"
    ELSE IF DebuggerUpdateConnectIoPort(b).success THEN "ioport"
    ELSE "none"

\* the bytes the frames of q took from the buffer
RECURSIVE BytesConsumed(_)
BytesConsumed(q) == IF q = <<>> THEN 0 ELSE Head(q).byteLength + BytesConsumed(Tail(q))

\* C25: in every step of the parse loop, no response decoder is selected for
\* a buffer that starts with request_id 0; a frame with request_id 0 that is
\* consumed is consumed by the first update decoder that succeeds, in the
\* order threads, undefined, IO-port, and removes no request record; and
\* the bytes that leave unhandledData are exactly those of the frames
\* consumed, each by one handler.
C25_UpdateNeverResponse ==
    [][/\ \A e \in decoded' : e.kind = "response" => e.requestId # 0
       /\ \A i \in 1..Len(consumed') :
             (consumed'[i].kind # "handshake"
                /\ ReadUInt32LE(consumed'[i].buffer, 0) = 0) =>
                   /\ consumed'[i].kind \in {"threads", "undefined", "ioport"}
                   /\ consumed'[i].kind = FirstUpdateDecoder(consumed'[i].buffer)
                   /\ ~consumed'[i].removed
       /\ consumed' # <<>> =>
             unhandledData' = Slice(unhandledData \o lastChunk', BytesConsumed(consumed'))]_vars

\* one chunk held the response to a request and an update behind it: the
\* response has removed the record of its request, the update none
C25_Witness ==
    /\ Len(consumed) = 2
    /\ consumed[1].kind = "response" /\ consumed[1].removed
    /\ consumed[2].kind \in {"threads", "undefined", "ioport"} /\ ~consumed[2].removed
    /\ ReadUInt32LE(consumed[2].buffer, 0) = 0

\* the buffer b is the buffer a without some of its first bytes
IsSuffix(b, a) == \E k \in 0..Len(a) : b = Slice(a, k)

\* the bytes that left the front of the buffer in the step
BytesRemoved == Len(unhandledData) + Len(lastChunk') - Len(unhandledData')

\* C26: in every step unhandledData is what it was, with the chunk of the
\* step (if any) appended at the end and the bytes of the frames decoded in
\* the step removed from the front: nothing else leaves it, nothing else
\* enters it and the order of the bytes is kept, so it always is a suffix
\* of the chunks received so far.
C26_BufferIsSuffix ==
    [][/\ IsSuffix(unhandledData', unhandledData \o lastChunk')
       /\ lastChunk' = <<>> => unhandledData' = unhandledData
       /\ consumed' = <<>> => BytesRemoved = 0
       /\ unhandledData' # <<>> => BytesRemoved = BytesConsumed(consumed')
       /\ BytesRemoved <= BytesConsumed(consumed')]_vars

\* a frame that came in two chunks has been consumed when its second part
\* arrived
C26_Witness ==
    /\ consumed # <<>>
    /\ lastChunk # <<>>
    /\ Len(lastChunk) < consumed[1].byteLength
    /\ consumed[1].byteLength = Len(consumed[1].buffer)

\* frames have been consumed from the front of the buffer and other bytes
\* have stayed behind them
C26_WitnessResidual ==
    /\ consumed # <<>>
    /\ unhandledData # <<>>

\* C27: every request makeRequest writes states as packet_length the number
\* of bytes written, the body and the 12 bytes of the three header fields:
\* 12 for Continue, Stop, Threads and ExitChannel, 17 for Step, 16 for
\* StackTrace, and 25 plus the length of each path entry and its terminator
\* for Variables.
RECURSIVE PathCost(_)
PathCost(entries) ==
    IF entries = <<>> THEN 0 ELSE Len(Head(entries)) + 1 + PathCost(Tail(entries))

RequestLength(w) ==
    CASE w.command \in {"CONTINUE", "STOP", "THREADS", "EXIT_CHANNEL"} -> 12
      [] w.command = "STEP" -> 17
      [] w.command = "STACKTRACE" -> 16
      [] w.command = "VARIABLES" -> 25 + PathCost(w.extraData)

C27_PacketLength ==
    \A i \in 1..Len(lastWrite) :
       /\ ReadUInt32LE(lastWrite[i].bytes, 0) = Len(lastWrite[i].bytes)
       /\ Len(lastWrite[i].bytes) = RequestLength(lastWrite[i])
       /\ ReadUInt32LE(lastWrite[i].bytes, 8) = COMMANDS(lastWrite[i].command)

C27_Witness ==
    \E i \in 1..Len(lastWrite) :
       /\ lastWrite[i].command = "VARIABLES"
       /\ lastWrite[i].extraData = PathM
       /\ Len(lastWrite[i].bytes) = 27
       /\ ReadUInt32LE(lastWrite[i].bytes, 0) = 27
       /\ ReadUInt32LE(lastWrite[i].bytes, 21) = 1

C27_WitnessStep ==
    \E i \in 1..Len(lastWrite) :
       /\ lastWrite[i].command = "STEP"
       /\ Len(lastWrite[i].bytes) = 17

\* C31: when continue() has issued a Continue request (it returns an id
\* greater than 0) the stopped flag is false, so that the gated commands are
\* refused and pause() is allowed while the device runs.
C31_RunningAfterContinue ==
    (lastCall.op = "continue" /\ lastCall.ret > 0) => ~stopped

\* the step has handled one frame, a ThreadAttached update
AttachedHandled ==
    /\ Len(consumed') = 1
    /\ consumed'[1].kind = "threads"
    /\ \E e \in decoded' : e.kind = "threads" /\ e.updateType = "THREAD_ATTACHED"

\* C32: handling a ThreadAttached update leaves stopped, primaryThread,
\* stackFrameIndex, firstRunContinueFired, totalRequests and activeRequests
\* as they were and writes nothing; only the bytes of the update leave
\* unhandledData.
C32_ThreadAttachedFrame ==
    [][AttachedHandled =>
          /\ stopped' = stopped
          /\ primaryThread' = primaryThread
          /\ stackFrameIndex' = stackFrameIndex
          /\ firstRunContinueFired' = firstRunContinueFired
          /\ totalRequests' = totalRequests
          /\ activeRequests' = activeRequests
          /\ lastWrite' = <<>>
          /\ unhandledData' = Slice(unhandledData \o lastChunk', consumed'[1].byteLength)]_vars

\* the step has handled AllThreadsStopped updates and no other frame, the
\* first-run continue having fired before
LaterStopHandled ==
    /\ firstRunContinueFired
    /\ StopsDecoded' # {}
    /\ decoded' = StopsDecoded'

\* C33: the only request the session makes by itself is the first-run
\* Continue: an AllThreadsStopped update handled after the first one writes
\* nothing and leaves totalRequests and activeRequests as they were, and a
\* step in which no command method is called writes nothing but that one
\* Continue.
C33_OnlyFirstRunContinue ==
    /\ [][LaterStopHandled =>
             /\ lastWrite' = <<>>
             /\ totalRequests' = totalRequests
             /\ activeRequests' = activeRequests]_vars
    /\ [][(lastWrite' # <<>> /\ lastCall'.op = "none") =>
             /\ Len(lastWrite') = 1
             /\ lastWrite'[1].command = "CONTINUE"
             /\ ~firstRunContinueFired
             /\ firstRunContinueFired']_vars

(***************************************************************************)
(* Claims about the session and a device that keeps to the protocol,       *)
(* checked under SpecDevice.                                               *)
(***************************************************************************)

\* parsing the buffer once more changes nothing and writes nothing
ParseAgainSame ==
    LET s == parseUnhandledData(Session)
    IN  /\ s.unhandledData = unhandledData
        /\ s.activeRequests = activeRequests
        /\ s.stopped = stopped
        /\ s.firstRunContinueFired = firstRunContinueFired
        /\ s.totalRequests = totalRequests
        /\ s.lastWrite = <<>>

\* C12: parsing a buffer from which no complete frame can be decoded (the
\* first bytes of a frame, the rest of it not yet delivered) leaves the
\* session as it was: unhandledData holds the same bytes, activeRequests,
\* stopped, firstRunContinueFired and totalRequests are unchanged, nothing
\* is written to the socket, and parsing again gives the same.
C12_NoFrameNoChange ==
    [][(unhandledData = <<>> /\ wire = <<>> /\ wire' # <<>>) =>
          /\ unhandledData' = lastChunk'
          /\ activeRequests' = activeRequests
          /\ stopped' = stopped
          /\ firstRunContinueFired' = firstRunContinueFired
          /\ totalRequests' = totalRequests
          /\ lastWrite' = <<>>
          /\ ParseAgainSame']_vars

\* the chunk just delivered is the first part of an AllThreadsStopped update
\* cut inside stop_reason_detail, before its NUL; the rest is on the wire
SplitInDetail ==
    /\ wire # <<>>
    /\ (lastChunk \o wire) \in UpdateFrames
    /\ UPDATE_TYPES(ReadUInt32LE(lastChunk \o wire, 8)) = "ALL_THREADS_STOPPED"
    /\ Len(lastChunk) >= 17

\* C13: when an AllThreadsStopped update arrives in two chunks, cut inside
\* stop_reason_detail, the first chunk leaves unhandledData holding just its
\* bytes and dispatches nothing, and after the second chunk exactly one
\* threads update has been dispatched and unhandledData is empty.
C13_SplitThreadsUpdate ==
    /\ [][(unhandledData = <<>> /\ wire = <<>> /\ SplitInDetail') =>
             /\ unhandledData' = lastChunk'
             /\ decoded' = {}
             /\ lastWrite' = <<>>]_vars
    /\ [][(SplitInDetail /\ Len(unhandledData) <= Len(lastChunk) /\ wire' = <<>>) =>
             /\ unhandledData' = <<>>
             /\ Cardinality({e \in decoded' : e.kind = "threads"}) = 1]_vars

\* the step has handled the first AllThreadsStopped update of the session and
\* no other frame
FirstStopHandled == ~firstRunContinueFired /\ decoded' = StopsDecoded' /\ StopsDecoded' # {}

\* C14: the first AllThreadsStopped update after connect makes the session
\* write exactly one Continue request (packet_length 12, request id 1 when
\* no request was made before), sets firstRunContinueFired, and is not
\* surfaced: afterwards isStopped is false and primaryThread and
\* stackFrameIndex are not set from the update.  Later AllThreadsStopped
\* updates are reported as stops.
C14_FirstStopNotSurfaced ==
    /\ [][FirstStopHandled =>
             /\ Len(lastWrite') = 1
             /\ lastWrite'[1].command = "CONTINUE"
             /\ Len(lastWrite'[1].bytes) = 12
             /\ ReadUInt32LE(lastWrite'[1].bytes, 0) = 12
             /\ WrittenId(lastWrite'[1]) = totalRequests + 1
             /\ ReadUInt32LE(lastWrite'[1].bytes, 8) = COMMANDS("CONTINUE")
             /\ firstRunContinueFired'
             /\ primaryThread' = primaryThread
             /\ stackFrameIndex' = stackFrameIndex]_vars
    /\ [][FirstStopHandled => ~stopped']_vars
    /\ [][(firstRunContinueFired /\ StopsDecoded' # {}) => stopped']_vars

(***************************************************************************)
(* Claims about TelnetRequestPipeline, checked under SpecTelnet.           *)
(***************************************************************************)

\* C1 as stated: a queued command is written to the socket only while
\* isAtDebuggerPrompt is true, and the only writes made while it is false
\* are those of the bypass write().
C1_WritesAtPrompt ==
    \A i \in 1..Len(clientWrites) :
        ~clientWrites[i].isAtDebuggerPrompt => clientWrites[i].by = "write"

\* C1 as amended: a queued command is promoted and written to the socket
\* only while isAtDebuggerPrompt is true; the writes made while it is false
\* are those of the bypass write() and the `print ""` that handleData
\* writes when the text ends with a Thread attached notice and no prompt.
C1_CommandsAtPrompt ==
    \A i \in 1..Len(clientWrites) :
        /\ clientWrites[i].by = "command" =>
              /\ clientWrites[i].isAtDebuggerPrompt
              /\ clientWrites[i].command \notin {commands[j] : j \in 1..Len(commands)}
        /\ clientWrites[i].by = "handleData" =>
              /\ ~clientWrites[i].isAtDebuggerPrompt
              /\ endsWithThreadAttachedText(unhandledText)

\* a command has been promoted and written while another one waits
C1_Witness ==
    /\ commands # <<>>
    /\ \E i \in 1..Len(clientWrites) : clientWrites[i].by = "command"

\* C16: commands are promoted in enqueue order, insertAtFront excepted: the
\* queue holds the commands inserted at the front, the latest first, and
\* behind them the others in the order of their executeCommand calls; the
\* command written to the socket is ahead of every command that still waits
\* (so of two commands enqueued without insertAtFront the earlier is written
\* first); a command enqueued with insertAtFront is promoted at once or is
\* the head of the queue; and a command that is active and not completed
\* stays the active command.
C16_EnqueueOrder ==
    /\ [](\A i, j \in 1..Len(commands) :
             i < j =>
                LET a == commands[i]
                    b == commands[j]
                IN  /\ (insertAtFront[a] /\ insertAtFront[b]) => a > b
                    /\ (~insertAtFront[a] /\ ~insertAtFront[b]) => a < b
                    /\ insertAtFront[b] => insertAtFront[a])
    /\ [](\A w \in 1..Len(clientWrites) :
             clientWrites[w].by = "command" =>
                \A q \in 1..Len(commands) :
                   LET c == clientWrites[w].command
                   IN  IF insertAtFront[c]
                       THEN insertAtFront[commands[q]] => commands[q] < c
                       ELSE ~insertAtFront[commands[q]] /\ commands[q] > c)
    /\ [][(client = "open" /\ commandIdSequence' = commandIdSequence + 1
              /\ insertAtFront'[commandIdSequence]) =>
             \/ activeCommand' = <<commandIdSequence>> /\ activeCommand # activeCommand'
             \/ /\ commands' = <<commandIdSequence>> \o commands
                /\ activeCommand' = activeCommand]_vars
    /\ [][(activeCommand # <<>> /\ promise'[activeCommand[1]] = "pending") =>
             activeCommand' = activeCommand]_vars

\* a command inserted at the front has been written to the socket while an
\* earlier command, enqueued without insertAtFront, still waits
C16_Witness ==
    \E w \in 1..Len(clientWrites) :
        /\ clientWrites[w].by = "command"
        /\ insertAtFront[clientWrites[w].command]
        /\ \E q \in 1..Len(commands) :
              ~insertAtFront[commands[q]] /\ commands[q] < clientWrites[w].command

\* the settlements of the latest step that resolved a command
Resolved == {i \in 1..Len(settlements) : settlements[i].state = "resolved"}

\* the text before the first prompt of a text
BeforeFirstPrompt(text) == SubSeq(text, 1, FirstPrompt(text) - 1)

\* the text without its first warning line
RECURSIVE WithoutWarning(_)
WithoutWarning(text) ==
    IF text = <<>> THEN <<>>
    ELSE IF Head(text) # "warning" THEN <<Head(text)>> \o WithoutWarning(Tail(text))
    ELSE IF Len(text) >= 2 /\ text[2] = "newline" THEN Tail(Tail(text))
    ELSE Tail(text)

\* an active command that is not completed
ActivePending == activeCommand # <<>> /\ promise[activeCommand[1]] = "pending"

\* C17 as stated: an active command does not stay pending when
\* unhandledText holds a prompt; it resolves with the text before the first
\* prompt minus the warning line and unhandledText is empty afterwards; for
\* the chunks of `print 5` the value is "5\r\n".
C17_ResponseAsStated ==
    /\ ~(ActivePending /\ FirstPrompt(unhandledText) # 0)
    /\ \A i \in Resolved :
          /\ FirstPrompt(settlements[i].text) # 0
          /\ settlements[i].value = WithoutWarning(BeforeFirstPrompt(settlements[i].text))
          /\ unhandledText = <<>>
          /\ settlements[i].text = PrintFiveText(3) =>
                settlements[i].value = <<"text", "newline">>

\* C17 as amended: an active command stays pending with a prompt in
\* unhandledText only when the text ends with a Thread attached notice that
\* lacks its prompt; otherwise it resolves with the text before the first
\* prompt minus the first warning line and unhandledText is empty
\* afterwards; for the chunks of `print 5` the value is "print 5\r\n5\r\n",
\* the echo of the command included.
C17_Response ==
    /\ (ActivePending /\ FirstPrompt(unhandledText) # 0) =>
          (~isAtDebuggerPrompt /\ endsWithThreadAttachedText(unhandledText))
    /\ \A i \in Resolved :
          /\ FirstPrompt(settlements[i].text) # 0
          /\ settlements[i].value = WithoutWarning(BeforeFirstPrompt(settlements[i].text))
          /\ unhandledText = <<>>
          /\ settlements[i].text = PrintFiveText(3) =>
                settlements[i].value = <<"echo", "newline", "text", "newline">>

\* the command `print 5` has been resolved on the third of its chunks
C17_Witness == \E i \in Resolved : settlements[i].text = PrintFiveText(3)

\* the step is the handling of a data chunk that reaches the dispatch of
\* lines 131-143: no executeCommand, no write(), no destroy(), and not the
\* chunk that handleData answers with `print ""` before it returns
DataStep ==
    /\ client = "open"
    /\ client' = client
    /\ commandIdSequence' = commandIdSequence
    /\ \A i \in 1..Len(clientWrites') : clientWrites'[i].by = "command"

\* the text ends with a line break or with the prompt
EndsWithNewlineOrPrompt(text) ==
    text # <<>> /\ text[Len(text)] \in {"newline", "attached", "prompt"}

\* C18: a data chunk handled while no command is active either emits the
\* whole of unhandledText once and clears it, when the text ends with a line
\* break or the prompt, or emits nothing and retains the text, when the text
\* ends in the middle of a line (complete lines before it or not).
C18_UnhandledOutput ==
    [][(DataStep /\ activeCommand = <<>>) =>
          \/ /\ Len(emitted') = 1
             /\ EndsWithNewlineOrPrompt(emitted'[1])
             /\ unhandledText' = <<>>
          \/ /\ emitted' = <<>>
             /\ ~EndsWithNewlineOrPrompt(unhandledText')]_vars

\* C19: when the telnet socket is lost, every command that is pending then,
\* active or queued, is rejected (with a connection-lost error) by the time
\* the loss has been handled: none stays pending.
C19_SocketLossRejects ==
    [][(client = "open" /\ client' = "ended") =>
          \A id \in 0..(commandIdSequence - 1) :
             promise[id] = "pending" => promise'[id] = "rejected"]_vars


\* the settlements of the latest step that are of command id
SettlementsOf(id) == {i \in 1..Len(settlements) : settlements[i].command = id}

\* C24: the deferred of a telnet command is settled at most once: a step
\* settles only deferreds that were pending, each once, and a settled
\* deferred keeps its state; and between two steps (so when a data chunk is
\* dispatched) the active command, if any, is still pending.
C24_SettledOnce ==
    /\ [][\A id \in CommandIds :
             /\ promise[id] # "pending" => promise'[id] = promise[id] /\ SettlementsOf(id)' = {}
             /\ Cardinality(SettlementsOf(id)') <= 1
             /\ promise'[id] # promise[id] => Cardinality(SettlementsOf(id)') = 1]_vars
    /\ [](activeCommand # <<>> => promise[activeCommand[1]] = "pending")

\* two commands have been resolved, one after the other, and a third is the
\* active command
C24_Witness ==
    /\ promise[0] = "resolved"
    /\ promise[1] = "resolved"
    /\ activeCommand = <<2>>

\* the commands written to the socket in the latest step
CommandWrites == {i \in 1..Len(clientWrites) : clientWrites[i].by = "command"}

\* C28: the command that is written to the socket has become the active
\* command; isAtDebuggerPrompt is false after the step when the command has
\* waitForPrompt = true and is what it was at the write when waitForPrompt
\* is false; and no second command is written until the deferred of the
\* active command has settled: a step writes one command at most, an active
\* command that is pending stays the active command, and a step that writes
\* a command while another is active has settled that one.
C28_PromotionAndPrompt ==
    [][/\ \A i \in CommandWrites' :
             LET id == clientWrites'[i].command
             IN  /\ activeCommand' = <<id>>
                 /\ waitForPrompt'[id] => ~isAtDebuggerPrompt'
                 /\ ~waitForPrompt'[id] =>
                       isAtDebuggerPrompt' = clientWrites'[i].isAtDebuggerPrompt
                 /\ activeCommand # <<>> => promise'[activeCommand[1]] # "pending"
       /\ Cardinality(CommandWrites') <= 1
       /\ (activeCommand # <<>> /\ promise'[activeCommand[1]] = "pending")
             => activeCommand' = activeCommand]_vars

\* a command with waitForPrompt = false has been written after an earlier
\* command has settled: it is the active command and the prompt is kept
C28_Witness ==
    \E i \in CommandWrites :
       /\ ~waitForPrompt[clientWrites[i].command]
       /\ activeCommand = <<clientWrites[i].command>>
       /\ isAtDebuggerPrompt
       /\ \E id \in CommandIds : promise[id] = "resolved"

\* a command with waitForPrompt = true has been written: the prompt is gone
C28_WitnessWait ==
    \E i \in CommandWrites :
       /\ waitForPrompt[clientWrites[i].command]
       /\ activeCommand = <<clientWrites[i].command>>
       /\ ~isAtDebuggerPrompt

(***************************************************************************)
(* Under SpecCodec.                                                        *)
(***************************************************************************)

\* the message has been built, encoded and decoded again
RoundTripDone == decodedMessage # NoMessage

\* C20: for each of the five message types and every message M built with
\* fromJson, fromBuffer(M.toBuffer()) is a success whose data has the fields
\* of M.data with the same values, except packetLength: it is undefined in
\* the message as built and is the length of the buffer in the decoded one.
C20_RoundTrip ==
    /\ (message # NoMessage /\ messageBuffer = <<>>) =>
          message.data.packetLength = Undefined
    /\ RoundTripDone =>
          /\ decodedMessage.success
          /\ decodedMessage.type = message.type
          /\ DOMAIN decodedMessage.data = DOMAIN message.data
          /\ \A f \in DOMAIN message.data \ {"packetLength"} :
                decodedMessage.data[f] = message.data[f]
          /\ decodedMessage.data.packetLength = <<Len(messageBuffer)>>

\* a thread update with a negative thread index and a reason detail, and a
\* stack trace of two entries, have made the round trip
C20_Witness ==
    /\ RoundTripDone
    /\ \/ /\ message.type = "ThreadAttachedUpdate"
          /\ message.data.threadIndex = -1
          /\ Len(message.data.stopReasonDetail) = 2
          /\ decodedMessage.data.packetLength = <<24>>
       \/ /\ message.type = "StackTraceV3Response"
          /\ Len(message.data.entries) = 2

\* the bytes a list of strings costs after its count: each string and a NUL
RECURSIVE StringsCost(_)
StringsCost(list) ==
    IF list = <<>> THEN 0 ELSE Len(Head(list)) + 1 + StringsCost(Tail(list))

\* the bytes the stack entries cost after their count: the line number on
\* four bytes and the two strings, each with a NUL
RECURSIVE EntriesCost(_)
EntriesCost(entries) ==
    IF entries = <<>> THEN 0
    ELSE 4 + Len(Head(entries).functionName) + 1 + Len(Head(entries).filePath) + 1
           + EntriesCost(Tail(entries))

\* the length the claim states for the message M, from M.data alone
StatedLength(M) ==
    CASE M.type \in {"ThreadAttachedUpdate", "AllThreadsStoppedUpdate"} ->
            16 + 4 + 1 + Len(M.data.stopReasonDetail) + 1
      [] M.type = "IOPortOpenedUpdate" -> 20
      [] M.type = "ExecuteV3Response" ->
            12 + 1 + 1 + 4 + StringsCost(M.data.compileErrors)
               + 4 + StringsCost(M.data.runtimeErrors)
               + 4 + StringsCost(M.data.otherErrors)
      [] M.type = "StackTraceV3Response" -> 12 + 4 + EntriesCost(M.data.entries)

\* C21: once a message is encoded, the packet_length written at the head of
\* the buffer, and the packetLength left in the message, are the exact byte
\* length of the buffer, which is the common header (12 or 16 bytes) plus
\* the body: length + 1 for each string, 4 for each count.
C21_PacketLength ==
    messageBuffer # <<>> =>
        /\ ReadUInt32LE(messageBuffer, 0) = Len(messageBuffer)
        /\ message.data.packetLength = <<Len(messageBuffer)>>
        /\ Len(messageBuffer) = StatedLength(message)

\* the lengths of the tests: 29 for a thread attached with 'because', 26 for
\* an execute response without errors; and a stack trace of two entries
C21_Witness ==
    /\ messageBuffer # <<>>
    /\ \/ message.type = "ThreadAttachedUpdate" /\ Len(messageBuffer) = 29
       \/ /\ message.type = "ExecuteV3Response" /\ Len(messageBuffer) = 26
       \/ /\ message.type = "StackTraceV3Response"
          /\ Len(message.data.entries) = 2 /\ Len(messageBuffer) = 36

(***************************************************************************)
(* Claims about DebugProtocolServer, checked under SpecServer.             *)
(***************************************************************************)

\* the handshake responses written to the client so far
HandshakesWritten ==
    {i \in 1..Len(serverWrites) : serverWrites[i].type = "HandshakeResponseV3"}

\* the handshake responses whose sendResponse has not reached client.write
HandshakesPending ==
    {i \in 1..Len(processes) :
        /\ processes[i].pc = "beforeSendResponse"
        /\ processes[i].response.type = "HandshakeResponseV3"}

\* the bytes received so far begin with a handshake request of the
\* configured magic
MagicReceived ==
    /\ HandshakeRequestV3(received).success
    /\ HandshakeRequestV3(received).data.magic = magic

\* C22: the server has completed the handshake exactly when the bytes
\* received begin with a whole handshake request of the configured magic;
\* from then on exactly one handshake response, of version 3.1.0, is sent or
\* in the course of being sent, and never a second one; until then (another
\* magic, or a request still incomplete) nothing is sent.
C22_ServerHandshake ==
    /\ isHandshakeComplete = MagicReceived
    /\ Cardinality(HandshakesWritten) + Cardinality(HandshakesPending)
          = (IF isHandshakeComplete THEN 1 ELSE 0)
    /\ ~isHandshakeComplete => serverWrites = <<>> /\ processes = <<>>
    /\ \A i \in HandshakesWritten :
          serverWrites[i].data = [magic |-> magic, majorVersion |-> 3,
                                  minorVersion |-> 1, patchVersion |-> 0]

\* the handshake request came in two parts, its response has been written,
\* and a chunk received after it has been answered too
C22_Witness ==
    /\ isHandshakeComplete
    /\ chunksReceived = 3
    /\ received = StringNT(DEBUGGER_MAGIC) \o <<1>>
    /\ Len(serverWrites) = 2
    /\ Cardinality(HandshakesWritten) = 1

\* a whole handshake request with another magic has been received
C22_WitnessOtherMagic ==
    /\ HandshakeRequestV3(received).success
    /\ HandshakeRequestV3(received).data.magic = BadMagic
    /\ chunksReceived = 2

\* the step is a 'data' event: a chunk is appended and process() is called
ChunkArrives == chunksReceived' = chunksReceived + 1

\* the step is the return of the provideRequest handlers to call i of
\* process(), which then overwrites this.buffer with the residual
ResidualStored(i) ==
    /\ i <= Len(processes)
    /\ processes[i].pc = "provideRequest"
    /\ Len(processes') = Len(processes)
    /\ processes'[i].pc = "provideResponse"

\* C23: chunks are drained one at a time: when a chunk is appended and
\* process() called for it, no earlier call of process() is still running
\* (awaiting a plugin event or its write), so the residual a call stores was
\* computed from the buffer as it is at that moment, and the buffer loses
\* only the bytes the plugin took as a request.
C23_OneChunkAtATime ==
    /\ [][ChunkArrives => processes = <<>>]_vars
    /\ [][\A i \in 1..MaxServerChunks :
             ResidualStored(i) =>
                /\ processes[i].buffer = serverBuffer
                /\ Len(serverBuffer') = Len(serverBuffer) - Len(processes'[i].provided)]_vars

\* C29: after the handshake, the request the provideRequest handlers made
\* out of the buffer is the request of the provideResponse event, and the
\* response the provideResponse handlers return is the one written to the
\* client.
C29_RequestHandedOn ==
    /\ [](\A i \in 1..Len(processes) :
             processes[i].pc = "provideResponse" =>
                processes[i].request = processes[i].provided)
    /\ [][serverWrites' # serverWrites =>
             \E i \in 1..Len(processes) :
                /\ processes[i].pc = "beforeSendResponse"
                /\ serverWrites' = Append(serverWrites, processes[i].response)]_vars
(***************************************************************************)
(* Claims about the progress of the telnet pipeline, checked under         *)
(* SpecShell.                                                              *)
(***************************************************************************)

====
